---- MODULE Spec2Model ----
(***************************************************************************)
(* Audit logging and alumni verification workflow of the alumni-tracer     *)
(* admin application: src/src/activityLog.ts,                              *)
(* src/src/pages/AlumniVerificationAdmin.tsx and                           *)
(* src/src/components/AdminVerifyToggle.tsx, run by two admin browser      *)
(* sessions against one backend (tables profiles and activity_logs).       *)
(* Every await of the code is a step boundary: the code up to the next     *)
(* await runs atomically (single-threaded event loop).                     *)
(***************************************************************************)
EXTENDS Integers, Sequences, FiniteSets, Bags, TLC

\* ------------------------------------------------------------------ bounds
MaxOps == 2        \* user operations started over a run
MaxClicks == 3     \* clicks on a deletion request over a run
MaxEvents == 3     \* realtime notifications, filter changes and refreshes over a run
MaxTime == 4       \* ticks of the clock over a run
MaxLoads == 2      \* calls of loadDashboard over a run

\* --------------------------------------------------------------- universes
NULL == "null"                       \* JavaScript null / undefined of an id or a string field
NoTime == 0 - 1                      \* JavaScript null of a timestamp field
Admins == {"a1", "a2"}               \* two signed-in admin browsers; each is also a profile row
Targets == {"u1", "u2"}              \* the alumni profiles the admins act on
Ids == Admins \cup Targets

FirstName(id) == CASE id = "a1" -> "Ann" [] id = "a2" -> "Bob" [] id = "u1" -> "Uma" [] OTHER -> "Vic"
LastName(id) == CASE id = "a1" -> "Ames" [] id = "a2" -> "Burr" [] id = "u1" -> "Ursa" [] OTHER -> "Vale"

VARIABLES
    profiles,        \* backend table profiles: id -> row
    activity_logs,   \* backend table activity_logs: sequence of rows in insertion order
    clock,           \* the time; it advances whenever an activity_logs row is inserted
    session,         \* per browser: the user supabase.auth.getUser() returns, or NULL
    rows,            \* AlumniVerificationAdmin state `rows` per browser
    loading,         \* AlumniVerificationAdmin state `loading`
    error,           \* AlumniVerificationAdmin state `error`
    savingId,        \* AlumniVerificationAdmin state `savingId`
    avtLoading,      \* AdminVerifyToggle state `loading`, per browser and userId prop
    avtErr,          \* AdminVerifyToggle state `err`
    ops,             \* the async calls in flight (a bag), each with its position (pc) and locals
    last,            \* the call that returned in the latest step (NoRet if none did), with what it did
    nops,            \* number of async calls started
    delStatus,       \* backend table account_deletion_requests: the status of the request
    delRows,         \* DeletionRequestsAdmin state `rows` per browser: the status shown
    prevStatus,      \* DeletionRequestsAdmin state `prevStatus` per browser (NULL: no entry)
    delError,        \* DeletionRequestsAdmin state `error`
    wallTime,        \* the time, in ticks of half the Dashboard reload delay
    reloadTimer,     \* Dashboard ref reloadTimer: the time its pending timeout is due, or NoTime
    lastNotified,    \* per subscribed page: the time of its latest realtime notification
    bursts,          \* per subscribed page: notification bursts so far
    reloads,         \* per subscribed page: loads started by its subscription
    nevents,         \* notifications and filter changes so far
    actionFilter,    \* ActivityLogs state `actionFilter`
    alRows,          \* ActivityLogs state `rows`: the load that set them and its filter
    alLoading,       \* ActivityLogs state `loading`
    errorMsg,        \* ActivityLogs state `errorMsg`
    alStarted,       \* ActivityLogs: calls of load so far
    subscribed,      \* ActivityLogs: the revision subscribes to activity_logs changes
    collegeFilter,   \* Dashboard state `collegeFilter`
    alumniData,      \* Dashboard state `alumniData`: the load that set it and the marker ids
    dashLoading,     \* Dashboard state `loading`
    loadError,       \* Dashboard state `loadError`
    geocodeCache,    \* localStorage item alumni-geocode-cache-v1: the location keys it holds
    dashLoads,       \* the loadDashboard calls in flight, each with its position and locals
    dashStarted      \* Dashboard: calls of loadDashboard so far

vars == <<profiles, activity_logs, clock, session, rows, loading, error, savingId,
          avtLoading, avtErr, ops, last, nops,
          delStatus, delRows, prevStatus, delError,
          wallTime, reloadTimer, lastNotified, bursts, reloads, nevents,
          actionFilter, alRows, alLoading, errorMsg, alStarted, subscribed,
          collegeFilter, alumniData, dashLoading, loadError, geocodeCache, dashLoads, dashStarted>>

backend == <<profiles, activity_logs, clock>>
page == <<rows, loading, error, savingId>>
widget == <<avtLoading, avtErr>>
deletion == <<delStatus, delRows, prevStatus, delError>>
live == <<wallTime, reloadTimer, lastNotified, bursts, reloads, nevents>>
logsPage == <<actionFilter, alRows, alLoading, errorMsg, alStarted, subscribed>>
dashboard == <<collegeFilter, alumniData, dashLoading, loadError, geocodeCache, dashLoads, dashStarted>>
verification == <<backend, session, page, widget>>

\* ------------------------------------------------------------ row helpers
\* The tri-state status as the page derives it from a row (Status column).
Status(p) ==
    IF p.role = "not_alumni" THEN "flagged_not_alumni"
    ELSE IF p.is_verified THEN "verified" ELSE "unverified"

\* A selected profiles row as a local Row: the flag fields are absent.
BaseRow(p) ==
    [course |-> p.course, is_verified |-> p.is_verified, verified_at |-> p.verified_at,
     verified_by |-> p.verified_by, role |-> p.role,
     flagged_by_name |-> NULL, flagged_by_role |-> NULL, flagged_at |-> NoTime]

NoRow == BaseRow([course |-> NULL, is_verified |-> FALSE, verified_at |-> NoTime, verified_by |-> NULL, role |-> NULL])

\* String.prototype.toLowerCase on the action labels the callers pass.
ToLowerCase(s) ==
    CASE s = "Verify Alumni" -> "verify alumni"
      [] s = "Unverify Alumni" -> "unverify alumni"
      [] s = "Mark Not Alumni" -> "mark not alumni"
      [] s = "Undo Not Alumni" -> "undo not alumni"
      [] s = "Edit Profile" -> "edit profile"
      [] s = "Login" -> "login"
      [] s = "Logout" -> "logout"
      [] OTHER -> s

\* The details string of the page's three operations.
RowDetails(t) == "alumni_id=" \o t \o "; name=" \o LastName(t) \o ", " \o FirstName(t)

\* The row logActivityRaw inserts (created_at is assigned by the backend).
LogRow(user_id, action, details, target_user_id) ==
    [user_id |-> user_id, action |-> action, details |-> details,
     target_user_id |-> target_user_id, created_at |-> clock]


\* ------------------------------------------------------------ async calls
NoLog == [user_id |-> NULL, created_at |-> NoTime]

\* The locals of a call: r is the row object the handler closed over, next the value
\* it writes, adminId/uid the results of its getUser calls, at the time it put in its
\* payload, path the request that changed the profile, before the stored status that
\* request found, tried/logged the activity_logs inserts it sent/that succeeded, tag the
\* action of the row it inserted, lpath the branch load() ended on, base/latest locals
\* of load.
NoOp ==
    [kind |-> "none", c |-> "a1", t |-> "u1", pc |-> "idle",
     r |-> NoRow, next |-> FALSE, adminId |-> NULL, at |-> NoTime, uid |-> NULL,
     path |-> "none", before |-> "none", tried |-> 0, logged |-> 0, tag |-> NULL,
     lpath |-> "none", status |-> NULL, gen |-> 0, filter |-> NULL,
     base |-> [i \in Ids |-> NoRow], latest |-> [i \in Ids |-> NoLog]]

\* What a returned call leaves behind: caught = it ended in its catch block or threw,
\* changed = it called onChange(next).
Ret(rec, caught, changed) ==
    [kind |-> rec.kind, c |-> rec.c, t |-> rec.t, next |-> rec.next, path |-> rec.path,
     before |-> rec.before, tried |-> rec.tried, logged |-> rec.logged, tag |-> rec.tag,
     lpath |-> rec.lpath, caught |-> caught, changed |-> changed]

NoRet == Ret(NoOp, FALSE, FALSE)

InFlight == BagToSet(ops)
Start(rec) == ops (+) SetToBag({rec})
Step(rec, rec2) == (ops (-) SetToBag({rec})) (+) SetToBag({rec2})
Return(rec) == ops (-) SetToBag({rec})

\* load(), first part up to its first await: setLoading(true); setError(null).
LoadOp(c) == [NoOp EXCEPT !.kind = "load", !.c = c, !.pc = "loadProfiles"]

InitProfile(i, verified) ==
    IF i \in Admins
    THEN [course |-> "BSIT", is_verified |-> TRUE, verified_at |-> 0, verified_by |-> "a1",
          role |-> IF i = "a1" THEN "admin" ELSE "coordinator"]
    ELSE IF i = "u1" /\ verified
    THEN [course |-> "BSIT", is_verified |-> TRUE, verified_at |-> 0, verified_by |-> "a1",
          role |-> "alumni"]
    ELSE [course |-> "BSIT", is_verified |-> FALSE, verified_at |-> NoTime, verified_by |-> NULL,
          role |-> "alumni"]

\* Both admins have the verification page open and its first load has completed;
\* u1 is unverified or verified, nothing has been logged yet.
InitVerification ==
    /\ profiles \in {[i \in Ids |-> InitProfile(i, v)] : v \in BOOLEAN}
    /\ activity_logs = <<>>
    /\ clock = 1
    /\ session = [c \in Admins |-> c]
    /\ rows = [c \in Admins |-> [i \in Ids |-> BaseRow(profiles[i])]]
    /\ loading = [c \in Admins |-> FALSE]
    /\ error = [c \in Admins |-> NULL]
    /\ savingId = [c \in Admins |-> NULL]
    /\ avtLoading = [c \in Admins |-> [t \in Targets |-> FALSE]]
    /\ avtErr = [c \in Admins |-> [t \in Targets |-> NULL]]
    /\ ops = EmptyBag
    /\ last = NoRet
    /\ nops = 0

\* DeletionRequestsAdmin is open in both browsers and has loaded the request, whose
\* status is st; nothing has been clicked.
InitDeletion(st) ==
    /\ delStatus = st
    /\ delRows = [c \in Admins |-> st]
    /\ prevStatus = [c \in Admins |-> NULL]
    /\ delError = [c \in Admins |-> NULL]

\* The pages with a realtime subscription.
Pages == {"dashboard", "announcements", "activityLogs"}

\* Dashboard, Announcements and ActivityLogs are mounted, their first loads are done
\* and no notification has arrived.
\* sub: the ActivityLogs revision is the one with a realtime subscription.
InitLive(sub) ==
    /\ wallTime = 0
    /\ reloadTimer = NoTime
    /\ lastNotified = [p \in Pages |-> NoTime]
    /\ bursts = [p \in Pages |-> 0]
    /\ reloads = [p \in Pages |-> 0]
    /\ nevents = 0
    /\ actionFilter = "all"
    /\ alRows = [gen |-> 0, filter |-> "all"]
    /\ alLoading = FALSE
    /\ errorMsg = NULL
    /\ alStarted = 0
    /\ subscribed = sub

\* alumniData before the first load has set it (null).
NoData == [stats |-> 0, locations |-> <<>>]

\* The Dashboard after mounting: its effect has called loadDashboard.
InitDashboard ==
    /\ collegeFilter = "all"
    /\ alumniData = NoData
    /\ dashLoading = TRUE
    /\ loadError = NULL
    /\ geocodeCache = {}
    /\ dashLoads = {[gen |-> 1, filter |-> "all", pc |-> "stats", cache |-> {},
                     toGeocode |-> <<>>, newlyAdded |-> <<>>]}
    /\ dashStarted = 1

Init == InitVerification /\ InitDeletion("pending") /\ InitLive(FALSE) /\ InitDashboard

\* ------------------------------------------------------------------ load
\* flaggedIds of load: the ids of the selected rows whose role is not_alumni.
FlaggedIds(base) == {i \in Ids : base[i].role = "not_alumni"}

\* The activity_logs rows the enrichment query of load selects.
FlagLogs(flaggedIds) ==
    {i \in 1 .. Len(activity_logs) :
        /\ activity_logs[i].action = "mark not alumni"
        /\ activity_logs[i].target_user_id \in flaggedIds}

\* FirstDesc, had the query ordered by created_at ascending.
FirstAsc(mine) ==
    CHOOSE i \in mine : \A j \in mine : activity_logs[j].created_at >= activity_logs[i].created_at

\* The row the loop of load keeps out of the rows `mine` of one target: the first in
\* created_at-descending order.
FirstDesc(mine) ==
    CHOOSE i \in mine : \A j \in mine : activity_logs[j].created_at <= activity_logs[i].created_at

\* latestByTarget of load.
LatestByTarget(flaggedIds) ==
    [t \in Ids |->
        LET mine == {i \in FlagLogs(flaggedIds) : activity_logs[i].target_user_id = t}
        IN IF mine = {} THEN NoLog
           ELSE [user_id |-> activity_logs[FirstDesc(mine)].user_id,
                 created_at |-> activity_logs[FirstDesc(mine)].created_at]]

HasLog(latest, t) == latest[t].created_at # NoTime

\* actorIds of load.
ActorIds(latest) == {latest[t].user_id : t \in {x \in Ids : HasLog(latest, x)}} \ {NULL}

\* The name load builds for an actor: [first_name, last_name].filter(Boolean).join(' ').
ActorName(id) == FirstName(id) \o " " \o LastName(id)

\* enriched of load; found is the set of actor ids whose profile the second
\* profiles query returned.
Enriched(base, latest, found) ==
    [i \in Ids |->
        IF base[i].role = "not_alumni" /\ HasLog(latest, i)
        THEN LET uid == latest[i].user_id
                 hit == uid # NULL /\ uid \in found
             IN [base[i] EXCEPT
                    !.flagged_by_name = IF hit THEN ActorName(uid) ELSE uid,
                    !.flagged_by_role = IF hit THEN profiles[uid].role ELSE NULL,
                    !.flagged_at = latest[i].created_at]
        ELSE base[i]]

\* load returns to its caller: markNotAlumni and undoNotAlumni run their finally block.
\* lpath names the branch load ended on.
AfterLoad(rec, lpath) ==
    /\ savingId' = IF rec.kind \in {"mark", "undo"}
                   THEN [savingId EXCEPT ![rec.c] = NULL] ELSE savingId
    /\ loading' = [loading EXCEPT ![rec.c] = FALSE]
    /\ ops' = Return(rec)
    /\ last' = Ret([rec EXCEPT !.lpath = lpath], FALSE, FALSE)

\* load: the profiles select resolves.
LoadProfiles(rec) ==
    /\ rec.pc = "loadProfiles"
    /\ \E ok \in BOOLEAN :
         IF ~ok
         THEN /\ error' = [error EXCEPT ![rec.c] = "Failed to load"]
              /\ AfterLoad(rec, "loadError")
              /\ UNCHANGED rows
         ELSE LET base == [i \in Ids |-> BaseRow(profiles[i])] IN
              IF FlaggedIds(base) = {}
              THEN /\ rows' = [rows EXCEPT ![rec.c] = base]
                   /\ AfterLoad(rec, "noFlagged")
                   /\ UNCHANGED error
              ELSE /\ ops' = Step(rec, [rec EXCEPT !.pc = "loadLogs", !.base = base])
                   /\ UNCHANGED page
                   /\ last' = NoRet
    /\ UNCHANGED <<backend, session, widget, nops>>

\* LoadLogs, had the error of the activity_logs select been thrown like the error of
\* the profiles select.
LoadLogsThrows(rec) ==
    /\ rec.pc = "loadLogs"
    /\ \E ok \in BOOLEAN :
         LET latest == LatestByTarget(FlaggedIds(rec.base)) IN
         IF ~ok
         THEN /\ error' = [error EXCEPT ![rec.c] = "Failed to load"]
              /\ AfterLoad(rec, "logsError")
              /\ UNCHANGED rows
         ELSE IF ActorIds(latest) = {}
         THEN /\ rows' = [rows EXCEPT ![rec.c] = Enriched(rec.base, latest, {})]
              /\ AfterLoad(rec, "noActors")
              /\ UNCHANGED error
         ELSE /\ ops' = Step(rec, [rec EXCEPT !.pc = "loadProfs", !.latest = latest])
              /\ UNCHANGED <<rows, loading, savingId, error>>
              /\ last' = NoRet
    /\ UNCHANGED <<backend, session, widget, nops>>

\* load: the activity_logs select resolves.
LoadLogs(rec) ==
    /\ rec.pc = "loadLogs"
    /\ \E ok \in BOOLEAN :
         LET latest == LatestByTarget(FlaggedIds(rec.base)) IN
         IF ~ok
         THEN /\ rows' = [rows EXCEPT ![rec.c] = rec.base]
              /\ AfterLoad(rec, "logsError")
         ELSE IF ActorIds(latest) = {}
         THEN /\ rows' = [rows EXCEPT ![rec.c] = Enriched(rec.base, latest, {})]
              /\ AfterLoad(rec, "noActors")
         ELSE /\ ops' = Step(rec, [rec EXCEPT !.pc = "loadProfs", !.latest = latest])
              /\ UNCHANGED <<rows, loading, savingId>>
              /\ last' = NoRet
    /\ UNCHANGED <<backend, session, widget, error, nops>>

\* load: the select of the actors' profiles resolves (its error is ignored).
LoadProfs(rec) ==
    /\ rec.pc = "loadProfs"
    /\ \E ok \in BOOLEAN :
         LET found == IF ok THEN ActorIds(rec.latest) ELSE {} IN
         /\ rows' = [rows EXCEPT ![rec.c] = Enriched(rec.base, rec.latest, found)]
         /\ AfterLoad(rec, IF ok THEN "enriched" ELSE "profsError")
    /\ UNCHANGED <<backend, session, widget, error, nops>>

\* The Reload button (disabled while loading).
Reload(c) ==
    /\ nops < MaxOps
    /\ ~loading[c]
    /\ loading' = [loading EXCEPT ![c] = TRUE]
    /\ error' = [error EXCEPT ![c] = NULL]
    /\ ops' = Start(LoadOp(c))
    /\ nops' = nops + 1
    /\ UNCHANGED <<backend, session, widget, rows, savingId>>
    /\ last' = NoRet

\* ---------------------------------------------------------- toggleVerify
\* VerifyPayload, had verifying also written the role back to alumni.
VerifyPayloadSetsRole(p, nextVerified, adminId, now) ==
    [p EXCEPT !.is_verified = nextVerified,
              !.verified_at = IF nextVerified THEN now ELSE NoTime,
              !.verified_by = IF nextVerified THEN adminId ELSE NULL,
              !.role = IF nextVerified THEN "alumni" ELSE @]

\* The payload toggleVerify sends to profiles.update, applied to the stored row p.
VerifyPayload(p, nextVerified, adminId, now) ==
    [p EXCEPT !.is_verified = nextVerified,
              !.verified_at = IF nextVerified THEN now ELSE NoTime,
              !.verified_by = IF nextVerified THEN adminId ELSE NULL]

\* toggleVerify up to its first await: savingId and the optimistic row.
ToggleVerifyStart(c, t) ==
    /\ nops < MaxOps
    /\ rows[c][t].role # "not_alumni"
    /\ savingId[c] # t
    /\ LET r == rows[c][t]
           nextVerified == ~r.is_verified IN
       /\ savingId' = [savingId EXCEPT ![c] = t]
       /\ rows' = [rows EXCEPT ![c][t] =
                     [r EXCEPT !.is_verified = nextVerified,
                               !.verified_at = IF nextVerified THEN clock ELSE NoTime]]
       /\ ops' = Start([NoOp EXCEPT !.kind = "toggleVerify", !.c = c, !.t = t,
                                    !.pc = "getUser", !.r = r, !.next = nextVerified])
    /\ nops' = nops + 1
    /\ UNCHANGED <<backend, session, widget, loading, error>>
    /\ last' = NoRet

\* getUser resolves in toggleVerify or markNotAlumni: the update is built and sent.
GetAdmin(rec) ==
    /\ rec.pc = "getUser"
    /\ ops' = Step(rec, [rec EXCEPT !.adminId = session[rec.c], !.at = clock, !.pc = "update"])
    /\ UNCHANGED <<backend, session, widget, page, nops>>
    /\ last' = NoRet

\* Rollback, had the catch block only set the error.
RollbackKeepsRow(rec) ==
    /\ error' = [error EXCEPT ![rec.c] = "Update failed"]
    /\ rows' = rows
    /\ savingId' = [savingId EXCEPT ![rec.c] = NULL]
    /\ ops' = Return(rec)
    /\ last' = Ret(rec, TRUE, FALSE)

\* The catch and finally blocks of the three page operations.
Rollback(rec) ==
    /\ error' = [error EXCEPT ![rec.c] = "Update failed"]
    /\ rows' = [rows EXCEPT ![rec.c][rec.t] = rec.r]
    /\ savingId' = [savingId EXCEPT ![rec.c] = NULL]
    /\ ops' = Return(rec)
    /\ last' = Ret(rec, TRUE, FALSE)

\* The update of a page operation succeeded: logActivity is called.
Updated(rec) ==
    /\ clock' = clock
    /\ ops' = Step(rec, [rec EXCEPT !.pc = "logGetUser", !.path = "update",
                                    !.before = Status(profiles[rec.t])])
    /\ UNCHANGED <<rows, error, savingId>>
    /\ last' = NoRet

\* profiles.update of toggleVerify resolves.
ToggleVerifyUpdate(rec) ==
    /\ rec.pc = "update" /\ rec.kind = "toggleVerify"
    /\ \E ok \in BOOLEAN :
         IF ok
         THEN /\ profiles' = [profiles EXCEPT ![rec.t] =
                                 VerifyPayload(@, rec.next, rec.adminId, rec.at)]
              /\ Updated(rec)
         ELSE /\ Rollback(rec)
              /\ UNCHANGED <<profiles, clock>>
    /\ UNCHANGED <<activity_logs, session, widget, loading, nops>>

\* ---------------------------------------------------------- markNotAlumni
\* The payload markNotAlumni sends to profiles.update, applied to the stored row p.
MarkPayload(p, adminId) ==
    [p EXCEPT !.is_verified = FALSE, !.verified_at = NoTime,
              !.verified_by = adminId, !.role = "not_alumni"]

\* markNotAlumni up to its first await.
MarkNotAlumniStart(c, t) ==
    /\ nops < MaxOps
    /\ rows[c][t].role # "not_alumni"
    /\ savingId[c] # t
    /\ LET r == rows[c][t] IN
       /\ savingId' = [savingId EXCEPT ![c] = t]
       /\ rows' = [rows EXCEPT ![c][t] =
                     [r EXCEPT !.is_verified = FALSE, !.verified_at = NoTime, !.role = "not_alumni"]]
       /\ ops' = Start([NoOp EXCEPT !.kind = "mark", !.c = c, !.t = t, !.pc = "getUser", !.r = r])
    /\ nops' = nops + 1
    /\ UNCHANGED <<backend, session, widget, loading, error>>
    /\ last' = NoRet

\* profiles.update of markNotAlumni resolves.
MarkNotAlumniUpdate(rec) ==
    /\ rec.pc = "update" /\ rec.kind = "mark"
    /\ \E ok \in BOOLEAN :
         IF ok
         THEN /\ profiles' = [profiles EXCEPT ![rec.t] = MarkPayload(@, rec.adminId)]
              /\ Updated(rec)
         ELSE /\ Rollback(rec)
              /\ UNCHANGED <<profiles, clock>>
    /\ UNCHANGED <<activity_logs, session, widget, loading, nops>>

\* ---------------------------------------------------------- undoNotAlumni
\* UndoPayload, had the undo put back a verified profile.
UndoPayloadRestores(p) ==
    [p EXCEPT !.role = NULL, !.is_verified = TRUE, !.verified_at = NoTime, !.verified_by = NULL]

\* The payload undoNotAlumni sends to profiles.update, applied to the stored row p.
UndoPayload(p) ==
    [p EXCEPT !.role = NULL, !.is_verified = FALSE, !.verified_at = NoTime, !.verified_by = NULL]

\* undoNotAlumni up to its first await: the update is sent at once.
UndoNotAlumniStart(c, t) ==
    /\ nops < MaxOps
    /\ rows[c][t].role = "not_alumni"
    /\ savingId[c] # t
    /\ LET r == rows[c][t] IN
       /\ savingId' = [savingId EXCEPT ![c] = t]
       /\ rows' = [rows EXCEPT ![c][t] =
                     [r EXCEPT !.role = NULL, !.is_verified = FALSE, !.verified_at = NoTime,
                               !.verified_by = NULL, !.flagged_by_name = NULL,
                               !.flagged_by_role = NULL, !.flagged_at = NoTime]]
       /\ ops' = Start([NoOp EXCEPT !.kind = "undo", !.c = c, !.t = t, !.pc = "update", !.r = r])
    /\ nops' = nops + 1
    /\ UNCHANGED <<backend, session, widget, loading, error>>
    /\ last' = NoRet

\* profiles.update of undoNotAlumni resolves.
UndoNotAlumniUpdate(rec) ==
    /\ rec.pc = "update" /\ rec.kind = "undo"
    /\ \E ok \in BOOLEAN :
         IF ok
         THEN /\ profiles' = [profiles EXCEPT ![rec.t] = UndoPayload(@)]
              /\ Updated(rec)
         ELSE /\ Rollback(rec)
              /\ UNCHANGED <<profiles, clock>>
    /\ UNCHANGED <<activity_logs, session, widget, loading, nops>>

\* ------------------------------------------------------------ logActivity
\* The action label each page operation passes to logActivity.
ActionLabel(kind, next) ==
    CASE kind = "toggleVerify" -> (IF next THEN "Verify Alumni" ELSE "Unverify Alumni")
      [] kind = "mark" -> "Mark Not Alumni"
      [] OTHER -> "Undo Not Alumni"

\* logActivity has returned to the page operation rec: toggleVerify runs its finally
\* block; markNotAlumni and undoNotAlumni call load().
AfterLog(old, rec) ==
    IF rec.kind = "toggleVerify"
    THEN /\ savingId' = [savingId EXCEPT ![rec.c] = NULL]
         /\ ops' = Return(old)
         /\ last' = Ret(rec, FALSE, FALSE)
         /\ UNCHANGED <<rows, loading, error>>
    ELSE /\ loading' = [loading EXCEPT ![rec.c] = TRUE]
         /\ error' = [error EXCEPT ![rec.c] = NULL]
         /\ ops' = Step(old, [rec EXCEPT !.pc = "loadProfiles"])
         /\ UNCHANGED <<rows, savingId>>
         /\ last' = NoRet

\* logActivity: getUser resolves; logActivityRaw returns at once without a user id.
LogGetUser(rec) ==
    /\ rec.pc = "logGetUser"
    /\ LET uid == session[rec.c] IN
       IF uid = NULL
       THEN AfterLog(rec, rec)
       ELSE /\ ops' = Step(rec, [rec EXCEPT !.uid = uid, !.pc = "logInsert", !.tried = @ + 1])
            /\ UNCHANGED page
            /\ last' = NoRet
    /\ UNCHANGED <<backend, session, widget, nops>>

\* LogInsert, had the insert been an upsert keyed by action and target: a repeated
\* action succeeds without adding a row.
LogInsertDedup(rec) ==
    /\ rec.pc = "logInsert"
    /\ \E ok \in BOOLEAN :
         IF ok
         THEN LET row == LogRow(rec.uid, ToLowerCase(ActionLabel(rec.kind, rec.next)),
                                RowDetails(rec.t), rec.t)
                  dup == \E i \in 1 .. Len(activity_logs) :
                            /\ activity_logs[i].action = row.action
                            /\ activity_logs[i].target_user_id = row.target_user_id
              IN /\ activity_logs' = IF dup THEN activity_logs ELSE Append(activity_logs, row)
                 /\ clock' = clock + 1
                 /\ AfterLog(rec, [rec EXCEPT !.logged = @ + 1, !.tag = row.action])
         ELSE /\ AfterLog(rec, rec)
              /\ UNCHANGED <<activity_logs, clock>>
    /\ UNCHANGED <<profiles, session, widget, nops>>

\* LogInsert, had logActivityRaw thrown the insert error to the caller's catch block.
LogInsertThrows(rec) ==
    /\ rec.pc = "logInsert"
    /\ \E ok \in BOOLEAN :
         IF ok
         THEN /\ activity_logs' = Append(activity_logs,
                    LogRow(rec.uid, ToLowerCase(ActionLabel(rec.kind, rec.next)),
                           RowDetails(rec.t), rec.t))
              /\ clock' = clock + 1
              /\ AfterLog(rec, [rec EXCEPT !.logged = @ + 1,
                                            !.tag = ToLowerCase(ActionLabel(rec.kind, rec.next))])
         ELSE /\ Rollback(rec)
              /\ UNCHANGED <<activity_logs, clock, loading>>
    /\ UNCHANGED <<profiles, session, widget, nops>>

\* logActivityRaw: the activity_logs insert resolves; an error is only printed.
LogInsert(rec) ==
    /\ rec.pc = "logInsert"
    /\ \E ok \in BOOLEAN :
         IF ok
         THEN /\ activity_logs' = Append(activity_logs,
                    LogRow(rec.uid, ToLowerCase(ActionLabel(rec.kind, rec.next)),
                           RowDetails(rec.t), rec.t))
              /\ clock' = clock + 1
              /\ AfterLog(rec, [rec EXCEPT !.logged = @ + 1,
                                            !.tag = ToLowerCase(ActionLabel(rec.kind, rec.next))])
         ELSE /\ AfterLog(rec, rec)
              /\ UNCHANGED <<activity_logs, clock>>
    /\ UNCHANGED <<profiles, session, widget, nops>>

\* ------------------------------------------------------ AdminVerifyToggle
\* The remote procedure set_alumni_verification(p_user_id, p_verified), run by the
\* backend for the caller uid.
SetAlumniVerification(p, verified, uid, now) ==
    [p EXCEPT !.is_verified = verified,
              !.verified_at = IF verified THEN now ELSE NoTime,
              !.verified_by = IF verified THEN uid ELSE NULL]

\* The fallback payload {is_verified: next}, applied to the stored row p.
FallbackPayload(p, next) == [p EXCEPT !.is_verified = next]

\* toggle up to its first await; isVerified is the prop the parent passes.
ToggleStart(c, t, isVerified) ==
    /\ nops < MaxOps
    /\ ~avtLoading[c][t]
    /\ avtLoading' = [avtLoading EXCEPT ![c][t] = TRUE]
    /\ avtErr' = [avtErr EXCEPT ![c][t] = NULL]
    /\ ops' = Start([NoOp EXCEPT !.kind = "toggle", !.c = c, !.t = t, !.pc = "rpc",
                                 !.next = ~isVerified, !.adminId = session[c]])
    /\ nops' = nops + 1
    /\ UNCHANGED <<backend, session, page>>
    /\ last' = NoRet

\* The state change of toggle succeeded by the request `path`: getUser is called.
Toggled(rec, path) ==
    /\ clock' = clock
    /\ ops' = Step(rec, [rec EXCEPT !.pc = "avtGetUser", !.path = path,
                                    !.before = Status(profiles[rec.t])])
    /\ UNCHANGED widget
    /\ last' = NoRet

\* The rpc resolves; on an error the fallback update is sent.
ToggleRpc(rec) ==
    /\ rec.pc = "rpc"
    /\ \E ok \in BOOLEAN :
         IF ok
         THEN /\ profiles' = [profiles EXCEPT ![rec.t] =
                                 SetAlumniVerification(@, rec.next, rec.adminId, clock)]
              /\ Toggled(rec, "rpc")
         ELSE /\ ops' = Step(rec, [rec EXCEPT !.pc = "fallback"])
              /\ UNCHANGED <<profiles, clock, widget>>
              /\ last' = NoRet
    /\ UNCHANGED <<activity_logs, session, page, nops>>

\* ToggleFallback, had each request that was tried written its own activity_logs row.
ToggleFallbackLogs(rec) ==
    /\ rec.pc = "fallback"
    /\ \E ok \in BOOLEAN :
         IF ok
         THEN /\ profiles' = [profiles EXCEPT ![rec.t] = FallbackPayload(@, rec.next)]
              /\ activity_logs' = Append(activity_logs,
                    LogRow(rec.adminId, "Edit Profile", "fallback", rec.t))
              /\ clock' = clock + 1
              /\ ops' = Step(rec, [rec EXCEPT !.pc = "avtGetUser", !.path = "fallback",
                                              !.before = Status(profiles[rec.t]),
                                              !.tried = @ + 1, !.logged = @ + 1])
              /\ UNCHANGED widget
              /\ last' = NoRet
         ELSE /\ avtErr' = [avtErr EXCEPT ![rec.c][rec.t] = "Failed to update verification"]
              /\ avtLoading' = [avtLoading EXCEPT ![rec.c][rec.t] = FALSE]
              /\ ops' = Return(rec)
              /\ last' = Ret(rec, TRUE, FALSE)
              /\ UNCHANGED <<profiles, activity_logs, clock>>
    /\ UNCHANGED <<session, page, nops>>

\* The fallback update resolves; its error is thrown to the catch block.
ToggleFallback(rec) ==
    /\ rec.pc = "fallback"
    /\ \E ok \in BOOLEAN :
         IF ok
         THEN /\ profiles' = [profiles EXCEPT ![rec.t] = FallbackPayload(@, rec.next)]
              /\ Toggled(rec, "fallback")
         ELSE /\ avtErr' = [avtErr EXCEPT ![rec.c][rec.t] = "Failed to update verification"]
              /\ avtLoading' = [avtLoading EXCEPT ![rec.c][rec.t] = FALSE]
              /\ ops' = Return(rec)
              /\ last' = Ret(rec, TRUE, FALSE)
              /\ UNCHANGED <<profiles, clock>>
    /\ UNCHANGED <<activity_logs, session, page, nops>>

\* ToggleFinish, had setLoading(false) been placed in the catch block only.
ToggleFinishKeepsLoading(old, rec) ==
    /\ ops' = Return(old)
    /\ last' = Ret(rec, FALSE, TRUE)
    /\ UNCHANGED <<avtLoading, avtErr>>

\* toggle after the log attempt: onChange(next), then the finally block.
ToggleFinish(old, rec) ==
    /\ avtLoading' = [avtLoading EXCEPT ![rec.c][rec.t] = FALSE]
    /\ ops' = Return(old)
    /\ last' = Ret(rec, FALSE, TRUE)
    /\ UNCHANGED avtErr

\* ToggleGetUser, had onChange been called inside the if (actor) block.
ToggleGetUserNeedsActor(rec) ==
    /\ rec.pc = "avtGetUser"
    /\ LET actor == session[rec.c] IN
       IF actor = NULL
       THEN /\ avtLoading' = [avtLoading EXCEPT ![rec.c][rec.t] = FALSE]
            /\ ops' = Return(rec)
            /\ last' = Ret(rec, FALSE, FALSE)
            /\ UNCHANGED avtErr
       ELSE /\ ops' = Step(rec, [rec EXCEPT !.uid = actor, !.pc = "avtInsert", !.tried = @ + 1])
            /\ UNCHANGED widget
            /\ last' = NoRet
    /\ UNCHANGED <<backend, session, page, nops>>

\* getUser resolves in toggle; without an actor nothing is logged.
ToggleGetUser(rec) ==
    /\ rec.pc = "avtGetUser"
    /\ LET actor == session[rec.c] IN
       IF actor = NULL
       THEN ToggleFinish(rec, rec)
       ELSE /\ ops' = Step(rec, [rec EXCEPT !.uid = actor, !.pc = "avtInsert", !.tried = @ + 1])
            /\ UNCHANGED widget
            /\ last' = NoRet
    /\ UNCHANGED <<backend, session, page, nops>>

\* ToggleInsert, had the write been an upsert over the newest row.
ToggleInsertUpsert(rec) ==
    /\ rec.pc = "avtInsert"
    /\ \E ok \in BOOLEAN :
         IF ok
         THEN /\ activity_logs' =
                    LET row == LogRow(rec.uid, "Edit Profile",
                                      IF rec.next THEN "Marked user verified" ELSE "Marked user unverified",
                                      rec.t)
                    IN IF activity_logs = <<>> THEN <<row>>
                       ELSE [activity_logs EXCEPT ![Len(activity_logs)] = row]
              /\ clock' = clock + 1
              /\ ToggleFinish(rec, [rec EXCEPT !.logged = @ + 1, !.tag = "Edit Profile"])
         ELSE /\ ToggleFinish(rec, rec)
              /\ UNCHANGED <<activity_logs, clock>>
    /\ UNCHANGED <<profiles, session, page, nops>>

\* logActivityRaw called by toggle: the insert resolves.
ToggleInsert(rec) ==
    /\ rec.pc = "avtInsert"
    /\ \E ok \in BOOLEAN :
         IF ok
         THEN /\ activity_logs' = Append(activity_logs,
                    LogRow(rec.uid, "Edit Profile",
                           IF rec.next THEN "Marked user verified" ELSE "Marked user unverified",
                           rec.t))
              /\ clock' = clock + 1
              /\ ToggleFinish(rec, [rec EXCEPT !.logged = @ + 1, !.tag = "Edit Profile"])
         ELSE /\ ToggleFinish(rec, rec)
              /\ UNCHANGED <<activity_logs, clock>>
    /\ UNCHANGED <<profiles, session, page, nops>>

\* --------------------------------------------------- updateProfileWithLog
\* The updates argument: a change of course.
Updates == {[course |-> "BSCS"]}

ApplyUpdates(p, updates) == [p EXCEPT !.course = updates.course]

\* updateProfileWithLog up to its first await.
UpdateProfileStart(c) ==
    /\ nops < MaxOps
    /\ ops' = Start([NoOp EXCEPT !.kind = "updateProfile", !.c = c, !.t = c, !.pc = "uplGetUser"])
    /\ nops' = nops + 1
    /\ UNCHANGED <<backend, session, page, widget>>
    /\ last' = NoRet

\* getUser resolves; without a user 'Not signed in' is thrown, else the update is sent.
UpdateProfileGetUser(rec) ==
    /\ rec.pc = "uplGetUser"
    /\ LET user == session[rec.c] IN
       IF user = NULL
       THEN /\ ops' = Return(rec)
            /\ last' = Ret(rec, TRUE, FALSE)
       ELSE /\ ops' = Step(rec, [rec EXCEPT !.pc = "uplUpdate", !.uid = user, !.t = user])
            /\ last' = NoRet
    /\ UNCHANGED <<backend, session, page, widget, nops>>

\* UpdateProfileUpdate, had the log call been placed outside the if (!error) block.
UpdateProfileUpdateLogsAlways(rec) ==
    /\ rec.pc = "uplUpdate"
    /\ \E ok \in BOOLEAN, u \in Updates :
         /\ profiles' = IF ok THEN [profiles EXCEPT ![rec.uid] = ApplyUpdates(@, u)] ELSE profiles
         /\ clock' = clock
         /\ ops' = Step(rec, [rec EXCEPT !.pc = "uplInsert", !.tried = @ + 1,
                                         !.path = IF ok THEN "update" ELSE "error",
                                         !.before = Status(profiles[rec.uid])])
         /\ last' = NoRet
    /\ UNCHANGED <<activity_logs, session, page, widget, nops>>

\* The profiles update resolves; its error is returned, not thrown.
UpdateProfileUpdate(rec) ==
    /\ rec.pc = "uplUpdate"
    /\ \E ok \in BOOLEAN, u \in Updates :
         IF ok
         THEN /\ profiles' = [profiles EXCEPT ![rec.uid] = ApplyUpdates(@, u)]
              /\ clock' = clock
              /\ ops' = Step(rec, [rec EXCEPT !.pc = "uplInsert", !.path = "update", !.tried = @ + 1,
                                              !.before = Status(profiles[rec.uid])])
              /\ last' = NoRet
         ELSE /\ ops' = Return(rec)
              /\ last' = Ret([rec EXCEPT !.path = "error"], FALSE, FALSE)
              /\ UNCHANGED <<profiles, clock>>
    /\ UNCHANGED <<activity_logs, session, page, widget, nops>>

\* UpdateProfileInsert, had the target_user_id argument been left out.
UpdateProfileInsertNoTarget(rec) ==
    /\ rec.pc = "uplInsert"
    /\ \E ok \in BOOLEAN :
         IF ok
         THEN /\ activity_logs' = Append(activity_logs,
                    LogRow(rec.uid, "profile_update", "Updated fields: course", NULL))
              /\ clock' = clock + 1
              /\ last' = Ret([rec EXCEPT !.logged = @ + 1, !.tag = "profile_update"], FALSE, FALSE)
         ELSE /\ last' = Ret(rec, FALSE, FALSE)
              /\ UNCHANGED <<activity_logs, clock>>
    /\ ops' = Return(rec)
    /\ UNCHANGED <<profiles, session, page, widget, nops>>

\* logActivityRaw called by updateProfileWithLog: the insert resolves; {error: null}
\* is returned either way.
UpdateProfileInsert(rec) ==
    /\ rec.pc = "uplInsert"
    /\ \E ok \in BOOLEAN :
         IF ok
         THEN /\ activity_logs' = Append(activity_logs,
                    LogRow(rec.uid, "profile_update", "Updated fields: course", rec.uid))
              /\ clock' = clock + 1
              /\ last' = Ret([rec EXCEPT !.logged = @ + 1, !.tag = "profile_update"], FALSE, FALSE)
         ELSE /\ last' = Ret(rec, FALSE, FALSE)
              /\ UNCHANGED <<activity_logs, clock>>
    /\ ops' = Return(rec)
    /\ UNCHANGED <<profiles, session, page, widget, nops>>

\* ----------------------------------------------------------------- session
\* The browser's session ends (expiry, or sign-out in another tab).
SessionEnd(c) ==
    /\ session[c] # NULL
    /\ session' = [session EXCEPT ![c] = NULL]
    /\ UNCHANGED <<backend, page, widget, ops, nops>>
    /\ last' = NoRet

\* ------------------------------------------------------------------- spec
\* The profile the admins click on; the other rows are listed but left alone.
Clicked == {"u1"}

\* Two admins, a1 and a2, each with the verification page and an AdminVerifyToggle
\* for the clicked profile; the page reloads after markNotAlumni and undoNotAlumni.
Next ==
    \/ \E rec \in InFlight : LoadProfiles(rec) /\ UNCHANGED <<deletion, live, logsPage, dashboard>>
    \/ \E rec \in InFlight : LoadLogs(rec) /\ UNCHANGED <<deletion, live, logsPage, dashboard>>
    \/ \E rec \in InFlight : LoadProfs(rec) /\ UNCHANGED <<deletion, live, logsPage, dashboard>>
    \/ \E c \in Admins, t \in Clicked : ToggleVerifyStart(c, t) /\ UNCHANGED <<deletion, live, logsPage, dashboard>>
    \/ \E rec \in InFlight : GetAdmin(rec) /\ UNCHANGED <<deletion, live, logsPage, dashboard>>
    \/ \E rec \in InFlight : ToggleVerifyUpdate(rec) /\ UNCHANGED <<deletion, live, logsPage, dashboard>>
    \/ \E c \in Admins, t \in Clicked : MarkNotAlumniStart(c, t) /\ UNCHANGED <<deletion, live, logsPage, dashboard>>
    \/ \E rec \in InFlight : MarkNotAlumniUpdate(rec) /\ UNCHANGED <<deletion, live, logsPage, dashboard>>
    \/ \E c \in Admins, t \in Clicked : UndoNotAlumniStart(c, t) /\ UNCHANGED <<deletion, live, logsPage, dashboard>>
    \/ \E rec \in InFlight : UndoNotAlumniUpdate(rec) /\ UNCHANGED <<deletion, live, logsPage, dashboard>>
    \/ \E rec \in InFlight : LogGetUser(rec) /\ UNCHANGED <<deletion, live, logsPage, dashboard>>
    \/ \E rec \in InFlight : LogInsert(rec) /\ UNCHANGED <<deletion, live, logsPage, dashboard>>
    \/ \E c \in Admins, t \in Clicked, v \in BOOLEAN : ToggleStart(c, t, v) /\ UNCHANGED <<deletion, live, logsPage, dashboard>>
    \/ \E rec \in InFlight : ToggleRpc(rec) /\ UNCHANGED <<deletion, live, logsPage, dashboard>>
    \/ \E rec \in InFlight : ToggleFallback(rec) /\ UNCHANGED <<deletion, live, logsPage, dashboard>>
    \/ \E rec \in InFlight : ToggleGetUser(rec) /\ UNCHANGED <<deletion, live, logsPage, dashboard>>
    \/ \E rec \in InFlight : ToggleInsert(rec) /\ UNCHANGED <<deletion, live, logsPage, dashboard>>

Spec == Init /\ [][Next]_vars

\* One admin, a1, with every operation of the system, whose session may end at any time.
NextSolo ==
    \/ \E rec \in InFlight : LoadProfiles(rec) /\ UNCHANGED <<deletion, live, logsPage, dashboard>>
    \/ \E rec \in InFlight : LoadLogs(rec) /\ UNCHANGED <<deletion, live, logsPage, dashboard>>
    \/ \E rec \in InFlight : LoadProfs(rec) /\ UNCHANGED <<deletion, live, logsPage, dashboard>>
    \/ Reload("a1") /\ UNCHANGED <<deletion, live, logsPage, dashboard>>
    \/ \E t \in Clicked : ToggleVerifyStart("a1", t) /\ UNCHANGED <<deletion, live, logsPage, dashboard>>
    \/ \E rec \in InFlight : GetAdmin(rec) /\ UNCHANGED <<deletion, live, logsPage, dashboard>>
    \/ \E rec \in InFlight : ToggleVerifyUpdate(rec) /\ UNCHANGED <<deletion, live, logsPage, dashboard>>
    \/ \E t \in Clicked : MarkNotAlumniStart("a1", t) /\ UNCHANGED <<deletion, live, logsPage, dashboard>>
    \/ \E rec \in InFlight : MarkNotAlumniUpdate(rec) /\ UNCHANGED <<deletion, live, logsPage, dashboard>>
    \/ \E t \in Clicked : UndoNotAlumniStart("a1", t) /\ UNCHANGED <<deletion, live, logsPage, dashboard>>
    \/ \E rec \in InFlight : UndoNotAlumniUpdate(rec) /\ UNCHANGED <<deletion, live, logsPage, dashboard>>
    \/ \E rec \in InFlight : LogGetUser(rec) /\ UNCHANGED <<deletion, live, logsPage, dashboard>>
    \/ \E rec \in InFlight : LogInsert(rec) /\ UNCHANGED <<deletion, live, logsPage, dashboard>>
    \/ \E t \in Clicked, v \in BOOLEAN : ToggleStart("a1", t, v) /\ UNCHANGED <<deletion, live, logsPage, dashboard>>
    \/ \E rec \in InFlight : ToggleRpc(rec) /\ UNCHANGED <<deletion, live, logsPage, dashboard>>
    \/ \E rec \in InFlight : ToggleFallback(rec) /\ UNCHANGED <<deletion, live, logsPage, dashboard>>
    \/ \E rec \in InFlight : ToggleGetUser(rec) /\ UNCHANGED <<deletion, live, logsPage, dashboard>>
    \/ \E rec \in InFlight : ToggleInsert(rec) /\ UNCHANGED <<deletion, live, logsPage, dashboard>>
    \/ UpdateProfileStart("a1") /\ UNCHANGED <<deletion, live, logsPage, dashboard>>
    \/ \E rec \in InFlight : UpdateProfileGetUser(rec) /\ UNCHANGED <<deletion, live, logsPage, dashboard>>
    \/ \E rec \in InFlight : UpdateProfileUpdate(rec) /\ UNCHANGED <<deletion, live, logsPage, dashboard>>
    \/ \E rec \in InFlight : UpdateProfileInsert(rec) /\ UNCHANGED <<deletion, live, logsPage, dashboard>>
    \/ SessionEnd("a1") /\ UNCHANGED <<deletion, live, logsPage, dashboard>>

SpecSolo == Init /\ [][NextSolo]_vars

\* A remote call of a page operation or of a toggle in flight returns, with success
\* or with an error.
RemoteCallReturns ==
    \E rec \in InFlight :
        /\ \/ LoadProfiles(rec) \/ LoadLogs(rec) \/ LoadProfs(rec)
           \/ GetAdmin(rec) \/ ToggleVerifyUpdate(rec)
           \/ MarkNotAlumniUpdate(rec) \/ UndoNotAlumniUpdate(rec)
           \/ LogGetUser(rec) \/ LogInsert(rec)
           \/ ToggleRpc(rec) \/ ToggleFallback(rec) \/ ToggleGetUser(rec) \/ ToggleInsert(rec)
        /\ UNCHANGED <<deletion, live, logsPage, dashboard>>

\* One admin, a1, starting the operations that have a busy indicator.
NextBusy ==
    \/ \E t \in Clicked : ToggleVerifyStart("a1", t) /\ UNCHANGED <<deletion, live, logsPage, dashboard>>
    \/ \E t \in Clicked : MarkNotAlumniStart("a1", t) /\ UNCHANGED <<deletion, live, logsPage, dashboard>>
    \/ \E t \in Clicked : UndoNotAlumniStart("a1", t) /\ UNCHANGED <<deletion, live, logsPage, dashboard>>
    \/ \E t \in Clicked, v \in BOOLEAN : ToggleStart("a1", t, v) /\ UNCHANGED <<deletion, live, logsPage, dashboard>>
    \/ RemoteCallReturns

\* Every remote call eventually returns.
SpecBusy == Init /\ [][NextBusy]_vars /\ WF_vars(RemoteCallReturns)

\* One admin, a1, on the verification page, acting on both listed alumni.
NextRows ==
    \/ \E rec \in InFlight : LoadProfiles(rec) /\ UNCHANGED <<deletion, live, logsPage, dashboard>>
    \/ \E rec \in InFlight : LoadLogs(rec) /\ UNCHANGED <<deletion, live, logsPage, dashboard>>
    \/ \E rec \in InFlight : LoadProfs(rec) /\ UNCHANGED <<deletion, live, logsPage, dashboard>>
    \/ \E t \in Targets : ToggleVerifyStart("a1", t) /\ UNCHANGED <<deletion, live, logsPage, dashboard>>
    \/ \E rec \in InFlight : GetAdmin(rec) /\ UNCHANGED <<deletion, live, logsPage, dashboard>>
    \/ \E rec \in InFlight : ToggleVerifyUpdate(rec) /\ UNCHANGED <<deletion, live, logsPage, dashboard>>
    \/ \E t \in Targets : MarkNotAlumniStart("a1", t) /\ UNCHANGED <<deletion, live, logsPage, dashboard>>
    \/ \E rec \in InFlight : MarkNotAlumniUpdate(rec) /\ UNCHANGED <<deletion, live, logsPage, dashboard>>
    \/ \E t \in Targets : UndoNotAlumniStart("a1", t) /\ UNCHANGED <<deletion, live, logsPage, dashboard>>
    \/ \E rec \in InFlight : UndoNotAlumniUpdate(rec) /\ UNCHANGED <<deletion, live, logsPage, dashboard>>
    \/ \E rec \in InFlight : LogGetUser(rec) /\ UNCHANGED <<deletion, live, logsPage, dashboard>>
    \/ \E rec \in InFlight : LogInsert(rec) /\ UNCHANGED <<deletion, live, logsPage, dashboard>>

SpecRows == Init /\ [][NextRows]_vars

\* ------------------------------------------- signInWithPasswordLog, signOutWithLog
\* signInWithPasswordLog up to its first await: the browser c signs in as user c.
SignInStart(c) ==
    /\ nops < MaxOps
    /\ ops' = Start([NoOp EXCEPT !.kind = "signIn", !.c = c, !.t = NULL, !.pc = "signIn"])
    /\ nops' = nops + 1
    /\ UNCHANGED <<backend, session, page, widget>>
    /\ last' = NoRet

\* signInWithPassword resolves: with a user the session starts and 'login' is logged;
\* with an error getUser is called.
SignInResolve(rec) ==
    /\ rec.pc = "signIn"
    /\ \E ok \in BOOLEAN :
         IF ok
         THEN /\ session' = [session EXCEPT ![rec.c] = rec.c]
              /\ ops' = Step(rec, [rec EXCEPT !.pc = "siInsert", !.path = "ok", !.uid = rec.c,
                                              !.tried = @ + 1])
         ELSE /\ ops' = Step(rec, [rec EXCEPT !.pc = "siGetUser", !.path = "error"])
              /\ UNCHANGED session
    /\ UNCHANGED <<backend, page, widget, nops>>
    /\ last' = NoRet

\* The failure branch: getUser resolves; logActivityRaw returns at once without a user
\* id, and res is returned.
SignInGetUser(rec) ==
    /\ rec.pc = "siGetUser"
    /\ LET uid == session[rec.c] IN
       IF uid = NULL
       THEN /\ ops' = Return(rec)
            /\ last' = Ret(rec, FALSE, FALSE)
       ELSE /\ ops' = Step(rec, [rec EXCEPT !.pc = "siInsert", !.uid = uid, !.tried = @ + 1])
            /\ last' = NoRet
    /\ UNCHANGED <<backend, session, page, widget, nops>>

\* logActivityRaw called by signInWithPasswordLog: the insert resolves; res is returned.
SignInInsert(rec) ==
    /\ rec.pc = "siInsert"
    /\ LET action == IF rec.path = "ok" THEN "login" ELSE "login_failed" IN
       \E ok \in BOOLEAN :
         IF ok
         THEN /\ activity_logs' = Append(activity_logs, LogRow(rec.uid, action, "email", NULL))
              /\ clock' = clock + 1
              /\ last' = Ret([rec EXCEPT !.logged = @ + 1, !.tag = action], FALSE, FALSE)
         ELSE /\ last' = Ret(rec, FALSE, FALSE)
              /\ UNCHANGED <<activity_logs, clock>>
    /\ ops' = Return(rec)
    /\ UNCHANGED <<profiles, session, page, widget, nops>>

\* signOutWithLog up to its first await.
SignOutStart(c) ==
    /\ nops < MaxOps
    /\ ops' = Start([NoOp EXCEPT !.kind = "signOut", !.c = c, !.t = NULL, !.pc = "soGetUser"])
    /\ nops' = nops + 1
    /\ UNCHANGED <<backend, session, page, widget>>
    /\ last' = NoRet

\* getUser resolves: with a user 'logout' is logged, without one signOut is called.
SignOutGetUser(rec) ==
    /\ rec.pc = "soGetUser"
    /\ LET uid == session[rec.c] IN
       ops' = Step(rec, IF uid = NULL
                        THEN [rec EXCEPT !.pc = "signOut"]
                        ELSE [rec EXCEPT !.pc = "soInsert", !.uid = uid, !.tried = @ + 1])
    /\ UNCHANGED <<backend, session, page, widget, nops>>
    /\ last' = NoRet

\* SignOutInsert, had logActivityRaw thrown the insert error.
SignOutInsertThrows(rec) ==
    /\ rec.pc = "soInsert"
    /\ \E ok \in BOOLEAN :
         IF ok
         THEN /\ activity_logs' = Append(activity_logs, LogRow(rec.uid, "logout", "User signed out", NULL))
              /\ clock' = clock + 1
              /\ ops' = Step(rec, [rec EXCEPT !.pc = "signOut", !.logged = @ + 1, !.tag = "logout"])
              /\ last' = NoRet
         ELSE /\ ops' = Return(rec)
              /\ last' = Ret(rec, TRUE, FALSE)
              /\ UNCHANGED <<activity_logs, clock>>
    /\ UNCHANGED <<profiles, session, page, widget, nops>>

\* logActivityRaw called by signOutWithLog: the insert resolves; signOut is called.
SignOutInsert(rec) ==
    /\ rec.pc = "soInsert"
    /\ \E ok \in BOOLEAN :
         IF ok
         THEN /\ activity_logs' = Append(activity_logs, LogRow(rec.uid, "logout", "User signed out", NULL))
              /\ clock' = clock + 1
              /\ ops' = Step(rec, [rec EXCEPT !.pc = "signOut", !.logged = @ + 1, !.tag = "logout"])
         ELSE /\ ops' = Step(rec, [rec EXCEPT !.pc = "signOut"])
              /\ UNCHANGED <<activity_logs, clock>>
    /\ UNCHANGED <<profiles, session, page, widget, nops>>
    /\ last' = NoRet

\* supabase.auth.signOut() resolves: the session is gone and its result is returned.
SignOutDone(rec) ==
    /\ rec.pc = "signOut"
    /\ session' = [session EXCEPT ![rec.c] = NULL]
    /\ ops' = Return(rec)
    /\ last' = Ret(rec, FALSE, FALSE)
    /\ UNCHANGED <<backend, page, widget, nops>>

\* The two browsers signing in and out.
NextAuth ==
    \/ \E c \in Admins : SignInStart(c) /\ UNCHANGED <<deletion, live, logsPage, dashboard>>
    \/ \E rec \in InFlight : SignInResolve(rec) /\ UNCHANGED <<deletion, live, logsPage, dashboard>>
    \/ \E rec \in InFlight : SignInGetUser(rec) /\ UNCHANGED <<deletion, live, logsPage, dashboard>>
    \/ \E rec \in InFlight : SignInInsert(rec) /\ UNCHANGED <<deletion, live, logsPage, dashboard>>
    \/ \E c \in Admins : SignOutStart(c) /\ UNCHANGED <<deletion, live, logsPage, dashboard>>
    \/ \E rec \in InFlight : SignOutGetUser(rec) /\ UNCHANGED <<deletion, live, logsPage, dashboard>>
    \/ \E rec \in InFlight : SignOutInsert(rec) /\ UNCHANGED <<deletion, live, logsPage, dashboard>>
    \/ \E rec \in InFlight : SignOutDone(rec) /\ UNCHANGED <<deletion, live, logsPage, dashboard>>

SpecAuth == Init /\ [][NextAuth]_vars

\* --------------------------------------------------- DeletionRequestsAdmin
\* type Status without null: the values updateStatus can write.
Statuses == {"pending", "approved", "denied"}

\* The columns the other worlds leave alone while a deletion request is handled.
delFrame == <<verification, live, logsPage, dashboard>>

\* updateStatus up to its await: the Approve and Deny buttons of a row shown as
\* pending; before is the status of the row clicked. The local row is not touched.
UpdateStatusStart(c, status) ==
    /\ nops < MaxClicks
    /\ delRows[c] = "pending"
    /\ ops' = Start([NoOp EXCEPT !.kind = "updateStatus", !.c = c, !.t = NULL, !.pc = "delUpdate",
                                 !.before = delRows[c], !.status = status])
    /\ nops' = nops + 1
    /\ UNCHANGED <<deletion, delFrame>>
    /\ last' = NoRet

\* UpdateStatusResolve, had prevStatus recorded the new status instead of `before`.
UpdateStatusResolveKeepsNew(rec) ==
    /\ rec.pc = "delUpdate" /\ rec.kind = "updateStatus"
    /\ \E ok \in BOOLEAN :
         IF ok
         THEN /\ delStatus' = rec.status
              /\ prevStatus' = [prevStatus EXCEPT ![rec.c] = rec.status]
              /\ delRows' = [delRows EXCEPT ![rec.c] = rec.status]
              /\ last' = Ret([rec EXCEPT !.path = "update"], FALSE, FALSE)
              /\ UNCHANGED delError
         ELSE /\ delError' = [delError EXCEPT ![rec.c] = "error.message"]
              /\ last' = Ret([rec EXCEPT !.path = "error"], FALSE, FALSE)
              /\ UNCHANGED <<delStatus, prevStatus, delRows>>
    /\ ops' = Return(rec)
    /\ UNCHANGED <<delFrame, nops>>

\* The update of updateStatus resolves: on an error only the message is set, else
\* prevStatus and the local row are set.
UpdateStatusResolve(rec) ==
    /\ rec.pc = "delUpdate" /\ rec.kind = "updateStatus"
    /\ \E ok \in BOOLEAN :
         IF ok
         THEN /\ delStatus' = rec.status
              /\ prevStatus' = [prevStatus EXCEPT ![rec.c] = rec.before]
              /\ delRows' = [delRows EXCEPT ![rec.c] = rec.status]
              /\ last' = Ret([rec EXCEPT !.path = "update"], FALSE, FALSE)
              /\ UNCHANGED delError
         ELSE /\ delError' = [delError EXCEPT ![rec.c] = "error.message"]
              /\ last' = Ret([rec EXCEPT !.path = "error"], FALSE, FALSE)
              /\ UNCHANGED <<delStatus, prevStatus, delRows>>
    /\ ops' = Return(rec)
    /\ UNCHANGED <<delFrame, nops>>

\* undoStatus up to its await: the Undo button of a row not shown as pending;
\* previous = prevStatus[row.id] ?? 'pending'.
UndoStatusStart(c) ==
    /\ nops < MaxClicks
    /\ delRows[c] # "pending"
    /\ ops' = Start([NoOp EXCEPT !.kind = "undoStatus", !.c = c, !.t = NULL, !.pc = "delUpdate",
                                 !.before = delRows[c],
                                 !.status = IF prevStatus[c] = NULL THEN "pending" ELSE prevStatus[c]])
    /\ nops' = nops + 1
    /\ UNCHANGED <<deletion, delFrame>>
    /\ last' = NoRet

\* The update of undoStatus resolves.
UndoStatusResolve(rec) ==
    /\ rec.pc = "delUpdate" /\ rec.kind = "undoStatus"
    /\ \E ok \in BOOLEAN :
         IF ok
         THEN /\ delStatus' = rec.status
              /\ delRows' = [delRows EXCEPT ![rec.c] = rec.status]
              /\ prevStatus' = [prevStatus EXCEPT ![rec.c] = "pending"]
              /\ last' = Ret([rec EXCEPT !.path = "update"], FALSE, FALSE)
              /\ UNCHANGED delError
         ELSE /\ delError' = [delError EXCEPT ![rec.c] = "error.message"]
              /\ last' = Ret([rec EXCEPT !.path = "error"], FALSE, FALSE)
              /\ UNCHANGED <<delStatus, prevStatus, delRows>>
    /\ ops' = Return(rec)
    /\ UNCHANGED <<delFrame, nops>>

\* The request was pending, approved, denied or without a status when the page loaded.
InitDel == InitVerification /\ InitLive(FALSE) /\ InitDashboard /\ \E st \in Statuses \cup {NULL} : InitDeletion(st)

\* Two admins on the deletion requests page.
NextDel ==
    \/ \E c \in Admins, st \in {"approved", "denied"} : UpdateStatusStart(c, st)
    \/ \E rec \in InFlight : UpdateStatusResolve(rec)
    \/ \E c \in Admins : UndoStatusStart(c)
    \/ \E rec \in InFlight : UndoStatusResolve(rec)

SpecDel == InitDel /\ [][NextDel]_vars

\* The same handlers with the backend's execution of a request and the arrival of its
\* response as separate steps. The backend executes the update of updateStatus or
\* undoStatus, or rejects it.
DelApply(rec) ==
    /\ rec.pc = "delUpdate" /\ rec.kind \in {"updateStatus", "undoStatus"}
    /\ \E ok \in BOOLEAN :
         /\ delStatus' = IF ok THEN rec.status ELSE delStatus
         /\ ops' = Step(rec, [rec EXCEPT !.pc = "delResponse",
                                         !.path = IF ok THEN "update" ELSE "error"])
    /\ UNCHANGED <<delRows, prevStatus, delError, delFrame, nops>>
    /\ last' = NoRet

\* The response of the update arrives and the handler goes on after its await.
DelResponse(rec) ==
    /\ rec.pc = "delResponse"
    /\ IF rec.path = "error"
       THEN /\ delError' = [delError EXCEPT ![rec.c] = "error.message"]
            /\ UNCHANGED <<prevStatus, delRows>>
       ELSE /\ delRows' = [delRows EXCEPT ![rec.c] = rec.status]
            /\ prevStatus' = [prevStatus EXCEPT ![rec.c] =
                                 IF rec.kind = "updateStatus" THEN rec.before ELSE "pending"]
            /\ UNCHANGED delError
    /\ ops' = Return(rec)
    /\ last' = Ret(rec, FALSE, FALSE)
    /\ UNCHANGED <<delStatus, delFrame, nops>>

\* One admin on the deletion requests page; responses arrive in any order.
NextDelNet ==
    \/ \E st \in {"approved", "denied"} : UpdateStatusStart("a1", st)
    \/ UndoStatusStart("a1")
    \/ \E rec \in InFlight : DelApply(rec)
    \/ \E rec \in InFlight : DelResponse(rec)

SpecDelNet == InitDel /\ [][NextDelNet]_vars

\* ------------------------------------ realtime subscriptions, ActivityLogs.load
\* The delay of the Dashboard reload timer (400 ms), in ticks of 200 ms.
Delay == 2

Filters == {"all", "Login"}

liveFrame == <<verification, deletion, nops, subscribed>>

\* The Dashboard reload timer is due.
TimerDue == reloadTimer # NoTime /\ wallTime >= reloadTimer

\* A notification for page p arrives: it opens a burst unless it comes within Delay of
\* the one before it.
Notified(p) ==
    /\ nevents < MaxEvents
    /\ nevents' = nevents + 1
    /\ bursts' = [bursts EXCEPT ![p] =
                    IF lastNotified[p] = NoTime \/ wallTime - lastNotified[p] >= Delay
                    THEN @ + 1 ELSE @]
    /\ lastNotified' = [lastNotified EXCEPT ![p] = wallTime]

\* Time passes; a timer that is due runs before time goes on.
Tick ==
    /\ wallTime < MaxTime
    /\ ~TimerDue
    /\ wallTime' = wallTime + 1
    /\ UNCHANGED <<reloadTimer, lastNotified, bursts, reloads, nevents, logsPage, liveFrame, ops>>
    /\ last' = NoRet

\* Dashboard: a profiles change notification clears the pending timer and sets a new
\* one.
NotifyDashboard ==
    /\ ~TimerDue
    /\ Notified("dashboard")
    /\ reloadTimer' = wallTime + Delay
    /\ UNCHANGED <<wallTime, reloads, logsPage, liveFrame, ops>>
    /\ last' = NoRet

\* Dashboard: the timer runs loadDashboard (followed up to its start).
DashboardTimer ==
    /\ TimerDue
    /\ reloadTimer' = NoTime
    /\ reloads' = [reloads EXCEPT !["dashboard"] = @ + 1]
    /\ UNCHANGED <<wallTime, lastNotified, bursts, nevents, logsPage, liveFrame, ops>>
    /\ last' = NoRet

\* Announcements: an announcements change notification calls load() (followed up to
\* its start).
NotifyAnnouncements ==
    /\ Notified("announcements")
    /\ reloads' = [reloads EXCEPT !["announcements"] = @ + 1]
    /\ UNCHANGED <<wallTime, reloadTimer, logsPage, liveFrame, ops>>
    /\ last' = NoRet

\* ActivityLogs.load up to its first await, with the filter f of its closure.
AlLoadStart(f) ==
    /\ alLoading' = TRUE
    /\ errorMsg' = NULL
    /\ alStarted' = alStarted + 1
    /\ ops' = Start([NoOp EXCEPT !.kind = "alLoad", !.t = NULL, !.pc = "alQuery",
                                 !.gen = alStarted + 1, !.filter = f])
    /\ UNCHANGED alRows
    /\ last' = NoRet

\* ActivityLogs (the revision with a subscription): an activity_logs change
\* notification calls load().
NotifyActivityLogs ==
    /\ subscribed
    /\ Notified("activityLogs")
    /\ reloads' = [reloads EXCEPT !["activityLogs"] = @ + 1]
    /\ AlLoadStart(actionFilter)
    /\ UNCHANGED <<wallTime, reloadTimer, actionFilter, liveFrame>>

\* ActivityLogs: the action filter is changed; the effect calls the new load.
FilterChange(f) ==
    /\ nevents < MaxEvents
    /\ f # actionFilter
    /\ nevents' = nevents + 1
    /\ actionFilter' = f
    /\ AlLoadStart(f)
    /\ UNCHANGED <<wallTime, reloadTimer, lastNotified, bursts, reloads, liveFrame>>

\* ActivityLogs: the Refresh button (disabled while loading).
Refresh ==
    /\ nevents < MaxEvents
    /\ ~alLoading
    /\ nevents' = nevents + 1
    /\ AlLoadStart(actionFilter)
    /\ UNCHANGED <<wallTime, reloadTimer, lastNotified, bursts, reloads, actionFilter, liveFrame>>

\* The options of the action filter other than All.
FilterOptions == {"Login", "Logout", "Edit Profile"}

\* The activity_logs rows load selects for the action filter f: .eq('action',
\* String(actionFilter).toLowerCase()), and no condition for 'all'.
ActionQuery(f) ==
    {i \in 1 .. Len(activity_logs) : f = "all" \/ activity_logs[i].action = ToLowerCase(f)}

\* The action strings the writers store for the kind of action of a filter option:
\* signInWithPasswordLog, signOutWithLog, and for profile edits updateProfileWithLog
\* and toggle.
RecordedFor(f) ==
    CASE f = "Login" -> {"login"}
      [] f = "Logout" -> {"logout"}
      [] OTHER -> {"profile_update", "Edit Profile"}

\* load: the activity_logs query resolves; without rows no names are fetched. On an
\* error the revision with the subscription also empties the rows.
AlQuery(rec) ==
    /\ rec.pc = "alQuery"
    /\ \E res \in {"error", "empty", "rows"} :
         CASE res = "error" ->
                /\ errorMsg' = "Failed to load activity logs"
                /\ alLoading' = FALSE
                /\ ops' = Return(rec)
                /\ last' = Ret([rec EXCEPT !.path = "error"], TRUE, FALSE)
                /\ alRows' = IF subscribed THEN [gen |-> rec.gen, filter |-> NULL] ELSE alRows
           [] res = "empty" ->
                /\ alRows' = [gen |-> rec.gen, filter |-> rec.filter]
                /\ alLoading' = FALSE
                /\ ops' = Return(rec)
                /\ last' = Ret(rec, FALSE, FALSE)
                /\ UNCHANGED errorMsg
           [] OTHER ->
                /\ ops' = Step(rec, [rec EXCEPT !.pc = "alNames"])
                /\ last' = NoRet
                /\ UNCHANGED <<alRows, alLoading, errorMsg>>
    /\ UNCHANGED <<live, actionFilter, alStarted, liveFrame>>

\* load: the profiles query for the names resolves (its error is ignored); setRows.
AlNames(rec) ==
    /\ rec.pc = "alNames"
    /\ alRows' = [gen |-> rec.gen, filter |-> rec.filter]
    /\ alLoading' = FALSE
    /\ ops' = Return(rec)
    /\ last' = Ret(rec, FALSE, FALSE)
    /\ UNCHANGED <<live, actionFilter, errorMsg, alStarted, liveFrame>>

\* Dashboard, Announcements and ActivityLogs receiving notifications; the ActivityLogs
\* filter and Refresh button.
NextLive ==
    \/ Tick /\ UNCHANGED dashboard
    \/ NotifyDashboard /\ UNCHANGED dashboard
    \/ DashboardTimer /\ UNCHANGED dashboard
    \/ NotifyAnnouncements /\ UNCHANGED dashboard
    \/ NotifyActivityLogs /\ UNCHANGED dashboard
    \/ \E f \in Filters : FilterChange(f) /\ UNCHANGED dashboard
    \/ Refresh /\ UNCHANGED dashboard
    \/ \E rec \in InFlight : AlQuery(rec) /\ UNCHANGED dashboard
    \/ \E rec \in InFlight : AlNames(rec) /\ UNCHANGED dashboard

InitRealtime ==
    InitVerification /\ InitDeletion("pending") /\ InitDashboard /\ \E sub \in BOOLEAN : InitLive(sub)

SpecLive == InitRealtime /\ [][NextLive]_vars

\* ------------------------------------------------------- Dashboard, loadDashboard
\* The alumni the Dashboard selects, in the order of the query (id descending): d2
\* has coordinates, d1 only a text location to geocode.
DashIds == {"d1", "d2"}
DashRows == <<"d2", "d1">>
College(d) == IF d = "d1" THEN "ICS" ELSE "IBM"
HasCoords(d) == d = "d2"

\* getTextKey(r).toLowerCase(): the cache key of a profile's text location.
TextKey(d) == "location of " \o d

Colleges == {"all", "ICS", "IBM"}

\* The rows of the query lq for the college filter f.
RowsOf(f) ==
    LET Match(d) == f = "all" \/ College(d) = f IN SelectSeq(DashRows, Match)

\* initialMarkers: the rows with coordinates or with a cached location.
InitialMarkers(rws, cache) ==
    LET Placed(d) == HasCoords(d) \/ TextKey(d) \in cache IN SelectSeq(rws, Placed)

\* toGeocode: the other rows.
ToGeocode(rws, cache) ==
    LET Missing(d) == ~HasCoords(d) /\ TextKey(d) \notin cache IN SelectSeq(rws, Missing)

dashFrame == <<verification, deletion, logsPage, ops, nops>>

\* loadDashboard up to its first await; f is the collegeFilter of the effect that
\* defined it.
LoadDashboardStart(f) ==
    /\ dashLoading' = TRUE
    /\ loadError' = NULL
    /\ dashStarted' = dashStarted + 1
    /\ dashLoads' = dashLoads \cup
           {[gen |-> dashStarted + 1, filter |-> f, pc |-> "stats", cache |-> {},
             toGeocode |-> <<>>, newlyAdded |-> <<>>]}
    /\ UNCHANGED <<alumniData, geocodeCache>>

\* handleCollegeFilterChange: the effect's cleanup clears the timer and removes the
\* channel, and the effect runs again for the new filter.
CollegeFilterChange(f) ==
    /\ nevents < MaxEvents
    /\ dashStarted < MaxLoads
    /\ f # collegeFilter
    /\ nevents' = nevents + 1
    /\ collegeFilter' = f
    /\ reloadTimer' = NoTime
    /\ LoadDashboardStart(f)
    /\ UNCHANGED <<wallTime, lastNotified, bursts, reloads, dashFrame>>
    /\ last' = NoRet

\* The reload timer runs loadDashboard.
DashboardTimerLoads ==
    /\ DashboardTimer
    /\ LoadDashboardStart(collegeFilter)
    /\ UNCHANGED collegeFilter

\* loadDashboard's catch block and the statement after it.
DashThrows(rec) ==
    /\ loadError' = "Failed to load dashboard"
    /\ dashLoading' = FALSE
    /\ dashLoads' = dashLoads \ {rec}
    /\ UNCHANGED <<alumniData, geocodeCache>>

\* loadViaProfiles after its loop: the newly geocoded markers are appended to the
\* markers shown, and loadDashboard ends.
DashFinish(rec, newlyAdded) ==
    /\ alumniData' =
          IF newlyAdded = <<>> THEN alumniData
          ELSE IF alumniData # NoData
               THEN [alumniData EXCEPT !.locations = @ \o newlyAdded]
               ELSE [stats |-> rec.gen, locations |-> newlyAdded]
    /\ dashLoading' = FALSE
    /\ dashLoads' = dashLoads \ {rec}
    /\ UNCHANGED loadError

\* computeProfileStats resolves.
DashStats(rec) ==
    /\ rec \in dashLoads /\ rec.pc = "stats"
    /\ \E ok \in BOOLEAN :
         IF ok
         THEN /\ dashLoads' = (dashLoads \ {rec}) \cup {[rec EXCEPT !.pc = "rows"]}
              /\ UNCHANGED <<alumniData, dashLoading, loadError, geocodeCache>>
         ELSE DashThrows(rec)
    /\ UNCHANGED <<collegeFilter, dashStarted, live, dashFrame>>
    /\ last' = NoRet

\* The query lq resolves: the cache is read, the initial markers are shown and the
\* rest is left to geocode.
DashQuery(rec) ==
    /\ rec \in dashLoads /\ rec.pc = "rows"
    /\ \E ok \in BOOLEAN :
         IF ok
         THEN LET rws == RowsOf(rec.filter)
                  todo == ToGeocode(rws, geocodeCache)
                  shown == [stats |-> rec.gen, locations |-> InitialMarkers(rws, geocodeCache)]
              IN IF todo = <<>>
                 THEN /\ alumniData' = shown
                      /\ dashLoading' = FALSE
                      /\ dashLoads' = dashLoads \ {rec}
                      /\ UNCHANGED <<loadError, geocodeCache>>
                 ELSE /\ alumniData' = shown
                      /\ dashLoads' = (dashLoads \ {rec}) \cup
                            {[rec EXCEPT !.pc = "geocode", !.cache = geocodeCache, !.toGeocode = todo]}
                      /\ UNCHANGED <<dashLoading, loadError, geocodeCache>>
         ELSE DashThrows(rec)
    /\ UNCHANGED <<collegeFilter, dashStarted, live, dashFrame>>
    /\ last' = NoRet

\* geocodeOne resolves for the first item left: a result is put in the load's cache
\* object, which is written to localStorage, and in newlyAdded; an error or no result
\* is skipped.
DashGeocode(rec) ==
    /\ rec \in dashLoads /\ rec.pc = "geocode"
    /\ LET d == Head(rec.toGeocode) IN
       \E res \in BOOLEAN :
         IF res
         THEN /\ geocodeCache' = rec.cache \cup {TextKey(d)}
              /\ dashLoads' = (dashLoads \ {rec}) \cup
                    {[rec EXCEPT !.pc = "pause", !.cache = @ \cup {TextKey(d)},
                                 !.newlyAdded = Append(@, d)]}
         ELSE /\ dashLoads' = (dashLoads \ {rec}) \cup {[rec EXCEPT !.pc = "pause"]}
              /\ UNCHANGED geocodeCache
    /\ UNCHANGED <<alumniData, dashLoading, loadError>>
    /\ UNCHANGED <<collegeFilter, dashStarted, live, dashFrame>>
    /\ last' = NoRet

\* The 350 ms pause after an item ends: the next item, or the end of the loop.
DashPause(rec) ==
    /\ rec \in dashLoads /\ rec.pc = "pause"
    /\ IF Len(rec.toGeocode) > 1
       THEN /\ dashLoads' = (dashLoads \ {rec}) \cup
                  {[rec EXCEPT !.pc = "geocode", !.toGeocode = Tail(@)]}
            /\ UNCHANGED <<alumniData, dashLoading, loadError>>
       ELSE DashFinish(rec, rec.newlyAdded)
    /\ UNCHANGED <<geocodeCache, collegeFilter, dashStarted, live, dashFrame>>
    /\ last' = NoRet

\* The Dashboard with its college filter and its subscription to profiles changes.
NextDash ==
    \/ Tick /\ UNCHANGED dashboard
    \/ NotifyDashboard /\ dashStarted < MaxLoads /\ UNCHANGED dashboard
    \/ DashboardTimerLoads
    \/ \E f \in Colleges : CollegeFilterChange(f)
    \/ \E rec \in dashLoads : DashStats(rec)
    \/ \E rec \in dashLoads : DashQuery(rec)
    \/ \E rec \in dashLoads : DashGeocode(rec)
    \/ \E rec \in dashLoads : DashPause(rec)

SpecDash == Init /\ [][NextDash]_vars

\* ------------------------------------------------------------- properties
\* The call rec takes the step.
Moved(rec) == CopiesIn(rec, ops') < CopiesIn(rec, ops)

\* The call rec takes the step and goes on at one of the positions pcs.
MovedTo(rec, pcs) ==
    /\ Moved(rec)
    /\ \E r2 \in BagToSet(ops') :
         /\ r2.pc \in pcs /\ r2.kind = rec.kind /\ r2.c = rec.c /\ r2.r = rec.r
         /\ CopiesIn(r2, ops') > CopiesIn(r2, ops)

\* The activity_logs rows of one target, in insertion order.
EntriesFor(t) ==
    LET Mine(e) == e.target_user_id = t IN SelectSeq(activity_logs, Mine)

\* C1: every verification toggle (toggleVerify, AdminVerifyToggle.toggle) that changed
\* the profile has inserted exactly one activity_logs row, tagged verify_profile or
\* unverify_profile after the value it wrote; one that failed has inserted none.
C1_OneTaggedEntryPerToggle ==
    last.kind \in {"toggleVerify", "toggle"} =>
        IF last.path # "none"
        THEN /\ last.logged = 1
             /\ last.tag = (IF last.next THEN "verify_profile" ELSE "unverify_profile")
        ELSE last.logged = 0

\* The positions at which a call waits for its audit write (the session lookup that
\* precedes the insert, and the insert).
AuditPcs == {"logGetUser", "logInsert", "avtGetUser", "avtInsert", "uplInsert"}

\* C2: once the primary update of toggleVerify, markNotAlumni, undoNotAlumni, toggle or
\* updateProfileWithLog has succeeded, no outcome of the audit write (no session user,
\* insert error) makes the operation report failure: no error message is set, the local
\* rows are not rolled back, toggle still calls onChange and updateProfileWithLog
\* returns no error.
C2_AuditFailureNotReported ==
    [][\A rec \in InFlight :
          (rec.pc \in AuditPcs /\ Moved(rec)) =>
              /\ rows' = rows
              /\ error'[rec.c] \in {error[rec.c], NULL}
              /\ avtErr' = avtErr
              /\ ~last'.caught
              /\ last'.path # "error"
              /\ (rec.kind = "toggle" /\ last' # NoRet => last'.changed)]_vars

\* A toggleVerify whose update succeeded and whose audit insert failed has returned
\* without an error, leaving the optimistic row in place.
C2_Witness ==
    /\ last.kind = "toggleVerify" /\ last.path = "update"
    /\ last.tried = 1 /\ last.logged = 0 /\ ~last.caught
    /\ error[last.c] = NULL
    /\ rows[last.c][last.t].is_verified = last.next

\* C3: a successful update of undoNotAlumni leaves the stored profile unverified:
\* neither flagged nor verified, whatever it was before it was flagged.
C3_UndoYieldsUnverified ==
    [][\A rec \in InFlight :
          (rec.kind = "undo" /\ MovedTo(rec, {"logGetUser"})) =>
              /\ Status(profiles'[rec.t]) = "unverified"
              /\ ~profiles'[rec.t].is_verified
              /\ profiles'[rec.t].role # "not_alumni"]_vars

\* An undo has just been applied to a flagged profile that was verified before it was
\* flagged (the other admin's page still shows it verified, as first loaded).
C3_Witness ==
    \E rec \in InFlight :
        /\ rec.kind = "undo" /\ rec.pc = "logGetUser" /\ rec.before = "flagged_not_alumni"
        /\ Status(profiles[rec.t]) = "unverified"
        /\ \E c \in Admins : /\ Status(rows[c][rec.t]) = "verified"
                             /\ rows[c][rec.t].verified_at = 0

\* C4: after flagging a profile and then undoing it (the only two operations), the
\* profile is unverified with verified_at and verified_by null, activity_logs holds
\* exactly two rows for it, mark_not_alumni then undo_not_alumni, and the local row
\* carries no flag metadata.
C4_FlagThenUndo ==
    (nops = 2 /\ ops = EmptyBag /\ last.kind = "undo" /\ ~last.caught) =>
        LET t == last.t
            p == profiles[t]
            es == EntriesFor(t)
        IN /\ Status(p) = "unverified" /\ p.verified_at = NoTime /\ p.verified_by = NULL
           /\ Len(es) = 2
           /\ es[1].action = "mark_not_alumni" /\ es[2].action = "undo_not_alumni"
           /\ rows[last.c][t].flagged_by_name = NULL
           /\ rows[last.c][t].flagged_by_role = NULL
           /\ rows[last.c][t].flagged_at = NoTime

\* C5: a successful update of markNotAlumni leaves the stored profile flagged with
\* verified_at and verified_by null, and the row it inserts into activity_logs is
\* tagged mark_not_alumni, with the flagging user as actor and the profile as target.
C5_FlagClearsAndLogs ==
    [][\A rec \in InFlight :
          rec.kind = "mark" =>
              /\ MovedTo(rec, {"logGetUser"}) =>
                    /\ Status(profiles'[rec.t]) = "flagged_not_alumni"
                    /\ profiles'[rec.t].verified_at = NoTime
                    /\ profiles'[rec.t].verified_by = NULL
              /\ (rec.pc = "logInsert" /\ Moved(rec)) =>
                    /\ Len(activity_logs') = Len(activity_logs) + 1
                    /\ activity_logs'[Len(activity_logs')].action = "mark_not_alumni"
                    /\ activity_logs'[Len(activity_logs')].user_id = rec.adminId
                    /\ activity_logs'[Len(activity_logs')].target_user_id = rec.t]_vars

\* C6: when the request of a verification toggle that changes the profile succeeds
\* (the update of toggleVerify, the rpc or the fallback update of toggle), the stored
\* profile has verified_at = the time of the request and verified_by = the acting admin
\* if the new value is verified, and both null if it is unverified; the activity_logs
\* row the toggle inserts is tagged verify_profile / unverify_profile and targets the
\* toggled user.
C6_ToggleSetsVerificationFields ==
    [][\A rec \in InFlight :
          rec.kind \in {"toggleVerify", "toggle"} =>
              /\ MovedTo(rec, {"logGetUser", "avtGetUser"}) =>
                    LET p == profiles'[rec.t]
                        now == IF rec.kind = "toggleVerify" THEN rec.at ELSE clock
                    IN IF rec.next
                       THEN p.is_verified /\ p.verified_at = now /\ p.verified_by = rec.adminId
                       ELSE ~p.is_verified /\ p.verified_at = NoTime /\ p.verified_by = NULL
              /\ (Moved(rec) /\ Len(activity_logs') > Len(activity_logs)) =>
                    /\ activity_logs'[Len(activity_logs')].action =
                          (IF rec.next THEN "verify_profile" ELSE "unverify_profile")
                    /\ activity_logs'[Len(activity_logs')].target_user_id = rec.t]_vars

\* C7 as stated: a toggle whose rpc failed and whose fallback update succeeded has
\* returned as a success (onChange called, no error) with exactly one activity_logs row
\* inserted.
C7_FallbackWritesOne ==
    (last.kind = "toggle" /\ last.path = "fallback") =>
        /\ last.changed /\ ~last.caught
        /\ last.logged = 1

\* C7: a toggle whose rpc failed and whose fallback update succeeded returns as a
\* success (onChange called, no error); it sends one activity_logs insert if a user is
\* signed in and none otherwise, so it adds one row if that insert succeeds and none
\* if it fails, never one per request tried.
C7_FallbackLogsAtMostOnce ==
    [][(last'.kind = "toggle" /\ last'.path = "fallback") =>
          /\ last'.changed /\ ~last'.caught
          /\ last'.tried <= 1
          /\ last'.tried = 0 => session[last'.c] = NULL
          /\ last'.logged <= last'.tried
          /\ Len(activity_logs') - Len(activity_logs) = last'.logged
          /\ \A t \in Targets : Len(EntriesFor(t))' <= Len(EntriesFor(t)) + 1]_vars

\* A toggle that succeeded by the fallback update has returned with its one row
\* inserted, the newest row of activity_logs.
C7_Witness ==
    /\ last.kind = "toggle" /\ last.path = "fallback"
    /\ last.changed /\ last.logged = 1
    /\ activity_logs # <<>>
    /\ activity_logs[Len(activity_logs)].target_user_id = last.t
    /\ profiles[last.t].is_verified = last.next

\* The transitions of the verification status.
Transitions ==
    {<<"unverified", "verified">>, <<"verified", "unverified">>,
     <<"unverified", "flagged_not_alumni">>, <<"verified", "flagged_not_alumni">>,
     <<"flagged_not_alumni", "unverified">>}

MarkEntries(t) ==
    {i \in 1 .. Len(activity_logs) :
        /\ activity_logs[i].action = ToLowerCase(ActionLabel("mark", FALSE))
        /\ activity_logs[i].target_user_id = t}

MostRecent(S) == CHOOSE i \in S : \A j \in S : j <= i

C10_AppendOnly ==
    [][/\ Len(activity_logs') >= Len(activity_logs)
       /\ \A i \in 1 .. Len(activity_logs) : activity_logs'[i] = activity_logs[i]]_vars

\* Two operations have each inserted a row, and the older row is still the first.
C10_Witness ==
    /\ Len(activity_logs) = 2
    /\ activity_logs[1].created_at < activity_logs[2].created_at
    /\ ops = EmptyBag

\* The requests by which an operation changes a profile, as recorded in path.
Committed == {"update", "rpc", "fallback"}

\* C11: toggleVerify, markNotAlumni, undoNotAlumni, toggle and updateProfileWithLog
\* send their activity_logs insert only after their profiles update (or rpc) has
\* returned success: a call that sends an insert has a committed update behind it, a
\* row is only added by such a call, and a call whose update failed returns without
\* having sent one.
C11_AuditAfterUpdate ==
    [][/\ \A rec \in InFlight :
             /\ Moved(rec) =>
                    \A r2 \in BagToSet(ops') :
                        (/\ r2.kind = rec.kind /\ r2.c = rec.c /\ r2.tried > rec.tried
                         /\ CopiesIn(r2, ops') > CopiesIn(r2, ops)) => r2.path \in Committed
             /\ (Moved(rec) /\ activity_logs' # activity_logs) =>
                    (rec.path \in Committed /\ rec.tried = 1)
       /\ (last' # NoRet /\ last'.path \notin Committed) =>
              (last'.tried = 0 /\ last'.logged = 0 /\ activity_logs' = activity_logs)]_vars

\* updateProfileWithLog's update failed: it has returned the error and nothing was
\* inserted.
C11_Witness ==
    /\ last.kind = "updateProfile" /\ last.path = "error"
    /\ last.tried = 0 /\ activity_logs = <<>>

\* C12: toggleVerify, markNotAlumni and undoNotAlumni change the local row before
\* their update resolves (the row their handler was given is kept in r); when the
\* update fails the local row is r again and an error message is set.
C12_OptimisticThenRollback ==
    [][/\ \A r2 \in BagToSet(ops') :
             (r2.kind \in {"toggleVerify", "mark", "undo"} /\ r2.pc \in {"getUser", "update"}
                /\ CopiesIn(r2, ops) = 0 /\ nops' = nops + 1) =>
                    /\ r2.r = rows[r2.c][r2.t]
                    /\ rows'[r2.c][r2.t] # r2.r
                    /\ profiles' = profiles
       /\ \A rec \in InFlight :
             (rec.kind \in {"toggleVerify", "mark", "undo"} /\ rec.pc = "update"
                /\ Moved(rec) /\ last'.caught) =>
                    /\ rows'[rec.c][rec.t] = rec.r
                    /\ error'[rec.c] # NULL
                    /\ profiles' = profiles]_vars

\* A markNotAlumni on a verified profile failed: the row shows verified again, as
\* before the click, and the error is shown.
C12_Witness ==
    /\ last.kind = "mark" /\ last.caught /\ last.path = "none"
    /\ Status(rows[last.c][last.t]) = "verified"
    /\ error[last.c] = "Update failed"

\* The rows toggleVerify has written for target t.
VerifyEntries(t) ==
    {i \in 1 .. Len(activity_logs) :
        /\ activity_logs[i].action \in {ToLowerCase(ActionLabel("toggleVerify", TRUE)),
                                        ToLowerCase(ActionLabel("toggleVerify", FALSE))}
        /\ activity_logs[i].target_user_id = t}

\* Both admins have toggled u1 to verified from the same unverified view, both
\* updates succeeded (no row was rolled back) and both calls have returned.
BothVerified ==
    /\ nops = 2 /\ ops = EmptyBag
    /\ \A c \in Admins : /\ rows[c]["u1"].is_verified /\ rows[c]["u1"].verified_at >= 1
                         /\ rows[c]["u1"].role # "not_alumni" /\ error[c] = NULL

\* C13 as stated: after two admins toggled the same profile, the stored value is that
\* of a write and there are as many verify/unverify rows as successful writes.
C13_EntryPerWrite ==
    BothVerified =>
        /\ profiles["u1"].is_verified /\ profiles["u1"].verified_by \in Admins
        /\ Cardinality(VerifyEntries("u1")) = 2

\* C13: a toggleVerify update that succeeds overwrites the stored value whatever it
\* was (no compare-and-swap: the last write applied wins), and each toggleVerify whose
\* insert succeeds adds one row of its own, also when a row with the same action and
\* target exists; a toggleVerify whose insert fails adds none.
C13_LastWriteWinsNoDedup ==
    [][\A rec \in InFlight :
          rec.kind = "toggleVerify" =>
              /\ MovedTo(rec, {"logGetUser"}) =>
                    /\ profiles'["u1"].is_verified = rec.next
                    /\ profiles'["u1"].verified_by = (IF rec.next THEN rec.adminId ELSE NULL)
              /\ (rec.pc = "logInsert" /\ Moved(rec)) =>
                    /\ last'.logged = Len(activity_logs') - Len(activity_logs)
                    /\ last'.logged = 1 =>
                          /\ Len(activity_logs') \in VerifyEntries(rec.t)'
                          /\ activity_logs'[Len(activity_logs')].user_id = rec.uid
                          /\ SubSeq(activity_logs', 1, Len(activity_logs)) = activity_logs]_vars

\* Both admins verified u1 and both inserts succeeded: two rows, one by each admin, and
\* the stored verifier is one of them.
C13_Witness ==
    /\ BothVerified
    /\ Cardinality(VerifyEntries("u1")) = 2
    /\ {activity_logs[i].user_id : i \in VerifyEntries("u1")} = Admins
    /\ profiles["u1"].verified_by \in Admins

\* The action vocabulary of an audit entry.
Vocabulary ==
    {"login", "logout", "login_failed", "profile_update", "verify_profile",
     "unverify_profile", "mark_not_alumni", "undo_not_alumni"}

\* C16: every row of activity_logs has an action of the fixed vocabulary.
C16_ActionsInVocabulary ==
    \A i \in 1 .. Len(activity_logs) : activity_logs[i].action \in Vocabulary

\* C17: every call of signInWithPasswordLog has inserted one row matching its outcome
\* when it returns: action login on success, login_failed on failure (also when no
\* session exists, then without an actor).
C17_SignInLogsOutcome ==
    last.kind = "signIn" =>
        /\ last.logged = 1
        /\ last.tag = (IF last.path = "ok" THEN "login" ELSE "login_failed")

\* C20: signOutWithLog ends the session only after its logout insert has resolved (or
\* after getUser returned no user, when nothing is inserted); the insert carries the
\* user getUser returned; and the call returns only through signOut, with the session
\* gone, also when the insert failed.
C20_LogoutLoggedBeforeSignOut ==
    [][\A rec \in InFlight :
          (rec.kind = "signOut" /\ Moved(rec)) =>
              /\ session' # session => rec.pc = "signOut"
              /\ rec.pc = "signOut" => (rec.tried = 1 \/ (rec.tried = 0 /\ rec.uid = NULL))
              /\ rec.pc = "soGetUser" =>
                    \A r2 \in BagToSet(ops') :
                        (r2.kind = "signOut" /\ r2.c = rec.c /\ CopiesIn(r2, ops') > CopiesIn(r2, ops)) =>
                            IF session[rec.c] = NULL
                            THEN r2.pc = "signOut" /\ r2.tried = 0
                            ELSE r2.pc = "soInsert" /\ r2.uid = session[rec.c] /\ r2.tried = 1
              /\ rec.pc = "soInsert" =>
                    /\ MovedTo(rec, {"signOut"})
                    /\ session' = session
                    /\ activity_logs' # activity_logs =>
                          /\ activity_logs'[Len(activity_logs')].action = "logout"
                          /\ activity_logs'[Len(activity_logs')].user_id = rec.uid
              /\ last' # NoRet => (rec.pc = "signOut" /\ session'[rec.c] = NULL)]_vars

\* A signOutWithLog whose logout insert failed has returned, and the session is gone.
C20_Witness ==
    /\ last.kind = "signOut" /\ last.tried = 1 /\ last.logged = 0 /\ ~last.caught
    /\ session[last.c] = NULL

\* C18: updateStatus and undoStatus change the local row's status when they are
\* called, before the backend update resolves, and a failed update puts the local
\* status back and sets the error.
C18_DeletionOptimistic ==
    [][/\ \A r2 \in BagToSet(ops') :
             (r2.kind \in {"updateStatus", "undoStatus"}
                /\ CopiesIn(r2, ops') > CopiesIn(r2, ops) /\ nops' = nops + 1) =>
                    delRows'[r2.c] = r2.status
       /\ \A rec \in InFlight :
             (rec.kind \in {"updateStatus", "undoStatus"} /\ Moved(rec) /\ last'.path = "error") =>
                    /\ delRows'[rec.c] = rec.before
                    /\ delError'[rec.c] # NULL]_vars

\* C19: an undoStatus whose update succeeds leaves the request pending in the backend
\* and in the local row, whatever was clicked before and whatever status the request
\* had when the page loaded.
C19_UndoSetsPending ==
    [][\A rec \in InFlight :
          (rec.kind = "undoStatus" /\ Moved(rec) /\ last'.path = "update") =>
              /\ delStatus' = "pending"
              /\ delRows'[rec.c] = "pending"
              /\ prevStatus'[rec.c] = "pending"]_vars

\* An undo has succeeded on a request this admin had approved or denied, while another
\* approve or deny is still in flight.
C19_Witness ==
    /\ last.kind = "undoStatus" /\ last.path = "update"
    /\ last.before \in {"approved", "denied"}
    /\ delRows[last.c] = "pending" /\ delStatus = "pending"
    /\ \E rec \in InFlight : rec.kind = "updateStatus"

\* No notification for page p is pending: the last one is at least Delay old and the
\* Dashboard timer has run.
Quiet(p) ==
    /\ lastNotified[p] # NoTime /\ wallTime - lastNotified[p] >= Delay
    /\ p = "dashboard" => reloadTimer = NoTime

\* C14: on every subscribed page (Dashboard, Announcements, ActivityLogs) a burst of
\* notifications starts one reload, after the burst: never more reloads than bursts,
\* and as many once the page is quiet.
C14_OneReloadPerBurst ==
    \A p \in Pages :
        /\ reloads[p] <= bursts[p]
        /\ Quiet(p) => reloads[p] = bursts[p]

\* C15: a load of ActivityLogs that resolves after a newer load has started leaves the
\* rows alone: the rows are only ever set by the most recently started load.
C15_StaleLoadIgnored ==
    [][\A rec \in InFlight :
          (rec.kind = "alLoad" /\ Moved(rec) /\ rec.gen < alStarted) => alRows' = alRows]_vars

\* updateProfileWithLog returns in this step.
UplReturns == last' # NoRet /\ last'.kind = "updateProfile"

\* What updateProfileWithLog does short of its audit entry: it throws exactly when
\* getUser gave no user, and then neither the profiles nor the activity_logs table is
\* touched and no request was sent; when the update failed it returns without having
\* sent an insert.
UplFailures ==
    /\ last'.caught =>
          /\ last'.path = "none" /\ last'.tried = 0
          /\ profiles' = profiles /\ activity_logs' = activity_logs
          /\ session[last'.c] = NULL
    /\ last'.path = "error" =>
          /\ ~last'.caught /\ last'.tried = 0
          /\ activity_logs' = activity_logs

\* The step appends one profile_update row whose actor and target are both user.
UplAppends(user) ==
    /\ Len(activity_logs') = Len(activity_logs) + 1
    /\ SubSeq(activity_logs', 1, Len(activity_logs)) = activity_logs
    /\ LET e == activity_logs'[Len(activity_logs')] IN
         e.action = "profile_update" /\ e.user_id = user /\ e.target_user_id = user

C22_OnChangeIffStateChanged ==
    [][/\ (last' # NoRet /\ last'.kind = "toggle") =>
             /\ last'.changed <=> last'.path \in {"rpc", "fallback"}
             /\ last'.caught <=> last'.path = "none"
             /\ last'.caught =>
                   /\ avtErr'[last'.c][last'.t] # NULL
                   /\ ~last'.changed
                   /\ last'.tried = 0 /\ last'.logged = 0
                   /\ activity_logs' = activity_logs
       /\ \A rec \in InFlight :
             (rec.kind = "toggle" /\ MovedTo(rec, {"fallback"})) =>
                 (rec.pc = "rpc" /\ rec.path = "none" /\ profiles' = profiles)]_vars

\* Both the rpc and the fallback update of a toggle failed: it has returned through
\* its catch block, with the message set and nothing logged.
C22_Witness ==
    /\ last.kind = "toggle" /\ last.caught /\ ~last.changed
    /\ avtErr[last.c][last.t] # NULL
    /\ activity_logs = <<>>

\* A local row without its flag fields.
Unflagged(r) == [r EXCEPT !.flagged_by_name = NULL, !.flagged_by_role = NULL, !.flagged_at = NoTime]

\* The load rec ends in this step on the branch lpath.
LoadEnds(rec, lpath) ==
    /\ Moved(rec) /\ rec.pc \in {"loadLogs", "loadProfs"}
    /\ last' # NoRet /\ last'.c = rec.c /\ last'.lpath = lpath

\* C23: a load whose activity_logs query failed, or whose query for the actors'
\* profiles found nothing, still displays every selected profile row and reports no
\* error: after a failed activity_logs query the flag fields are empty, and without
\* the actor's profile a flagged row shows the raw actor id as the name, no role and
\* the time of the entry.
C23_EnrichmentFailureDegrades ==
    [][\A rec \in InFlight :
          /\ (LoadEnds(rec, "logsError") \/ LoadEnds(rec, "profsError")) =>
                /\ error' = error
                /\ ~loading'[rec.c]
                /\ \A i \in Ids : Unflagged(rows'[rec.c][i]) = rec.base[i]
          /\ LoadEnds(rec, "logsError") => rows'[rec.c] = rec.base
          /\ LoadEnds(rec, "profsError") =>
                \A i \in Ids :
                    IF rec.base[i].role = "not_alumni" /\ HasLog(rec.latest, i)
                    THEN /\ rows'[rec.c][i].flagged_by_name = rec.latest[i].user_id
                         /\ rows'[rec.c][i].flagged_by_role = NULL
                         /\ rows'[rec.c][i].flagged_at = rec.latest[i].created_at
                    ELSE rows'[rec.c][i] = rec.base[i]]_vars

\* A load has ended after its activity_logs query failed, with a flagged profile in
\* the list and no error shown.
C23_Witness ==
    /\ last.lpath = "logsError"
    /\ error[last.c] = NULL /\ ~loading[last.c]
    /\ \E i \in Ids : rows[last.c][i].role = "not_alumni" /\ rows[last.c][i].flagged_at = NoTime

\* C24: selecting Login, Logout or Edit Profile in the ActivityLogs filter selects
\* every activity_logs row its writers recorded for that kind of action.
C24_FilterSelectsItsEntries ==
    \A f \in FilterOptions :
        \A i \in 1 .. Len(activity_logs) :
            activity_logs[i].action \in RecordedFor(f) => i \in ActionQuery(f)

\* C25: every marker of the Dashboard belongs to a profile of the selected college,
\* also after the filter was changed during an earlier load: stated for the times when
\* no load is in flight and no load error is shown.
C25_MarkersMatchFilter ==
    (dashLoads = {} /\ loadError = NULL /\ alumniData # NoData /\ collegeFilter # "all") =>
        \A i \in 1 .. Len(alumniData.locations) :
            College(alumniData.locations[i]) = collegeFilter

\* C30: the marker list of the Dashboard never holds two markers of one profile.
C30_NoDuplicateMarkers ==
    alumniData # NoData =>
        \A i, j \in 1 .. Len(alumniData.locations) :
            alumniData.locations[i] = alumniData.locations[j] => i = j

PageKinds == {"toggleVerify", "mark", "undo"}

\* C26: while toggleVerify, markNotAlumni or undoNotAlumni is in flight on a row, the
\* row's buttons are disabled (savingId is the row's id), whatever is started or
\* completes on other rows meanwhile, so no second operation runs on that row.
C26_ButtonsDisabledWhileInFlight ==
    \A rec \in InFlight : rec.kind \in PageKinds => savingId[rec.c] = rec.t

\* The local row of t in browser c agrees with the stored profile on is_verified,
\* verified_by and role.
Agrees(c, t) ==
    /\ rows[c][t].is_verified = profiles[t].is_verified
    /\ rows[c][t].verified_by = profiles[t].verified_by
    /\ rows[c][t].role = profiles[t].role

\* C27: once toggleVerify, markNotAlumni or undoNotAlumni of the single admin has
\* completed, with success or not, and nothing else is in flight, the local row
\* agrees with the stored profile on is_verified, verified_by and role.
C27_LocalRowAgreesWithStored ==
    (ops = EmptyBag /\ last.kind \in PageKinds) => Agrees(last.c, last.t)

\* C28: once every updateStatus and undoStatus of the single admin has completed, the
\* status shown for the request is the status stored, whatever the order in which the
\* backend executed the requests and in which their responses arrived.
C28_ShownStatusIsStored ==
    ops = EmptyBag => delRows["a1"] = delStatus

\* C29: toggleVerify, markNotAlumni, undoNotAlumni and toggle clear their busy
\* indicator on every path on which they return (savingId null, loading false), and
\* when every remote call returns a busy indicator that is set is eventually cleared.
C29_BusyIndicatorCleared ==
    /\ [][last' # NoRet =>
             /\ last'.kind \in PageKinds => savingId'[last'.c] = NULL
             /\ last'.kind = "toggle" => ~avtLoading'[last'.c][last'.t]]_vars
    /\ (savingId["a1"] # NULL) ~> (savingId["a1"] = NULL)
    /\ \A t \in Clicked : avtLoading["a1"][t] ~> ~avtLoading["a1"][t]

\* markNotAlumni has returned after its reload failed, and savingId is null again.
C29_Witness ==
    /\ last.kind = "mark" /\ last.lpath = "loadError"
    /\ savingId[last.c] = NULL /\ ops = EmptyBag

====
